---- MODULE Spec2Model ----
(***************************************************************************)
(* Maggpi: the ingestion / ranking / summarization pipeline.               *)
(*                                                                         *)
(* The store (SQLAlchemy session on SQLite) is modelled as three tables of *)
(* rows in primary-key order: items (ContentItem), logs (ScrapingLog) and  *)
(* summaries (Summary).  Handlers that loop over topics or sources advance *)
(* one BaseScraper.run or one summarize_topic call per step; the variable  *)
(* job holds the handler's position.  While a handler is in progress no    *)
(* other handler starts (one thread of control); SpecConcurrent at the end *)
(* interleaves two threads of control, whose positions threads holds.      *)
(***************************************************************************)
EXTENDS Integers, Sequences, FiniteSets, TLC

VARIABLES
    topicEnabled,   \* Topic.enabled of every Topic row, by topic id
    sourceEnabled,  \* Source.enabled of every Source row, by source id
    sourceTopics,   \* SourceTopic rows, in primary-key order
    items,          \* ContentItem rows, in primary-key order
    logs,           \* ScrapingLog rows, in primary-key order
    summaries,      \* Summary rows, in primary-key order
    now,            \* datetime.utcnow(), in whole hours
    job,            \* the handler in progress (or the one that just ended)
    lastRun,        \* the most recent BaseScraper.run call and its result
    prevRun,        \* the BaseScraper.run call before that one
    lastSum,        \* the most recent summarize_topic call and its result
    spent,          \* how much of each bound the behaviour has used
    probe,          \* the most recent call of a side-effect-free operation, its
                    \* result, and the call before it
    threads         \* where each of two concurrent threads of control stands

vars == <<topicEnabled, sourceEnabled, sourceTopics, items, logs, summaries,
          now, job, lastRun, prevRun, lastSum, spent, probe, threads>>

----------------------------------------------------------------------------
(* Bounds of the model *)

MaxRuns == 2        \* scrape_source calls in a behaviour of SpecIngest
MaxCalls == 3       \* direct calls and clock advances in a behaviour of SpecSummarize
MaxJobs == 2        \* refreshes in a behaviour of SpecRefresh, all-topics jobs in one of SpecBatch
MaxToggles == 1     \* admin toggles in a behaviour
MaxFetched == 2     \* items the adapters return in a behaviour, all fetches together
MaxItems == 2       \* items in a list handed to summarize_content or rank_content on its own
MaxCap == 3         \* the greatest max_count handed to select_diverse_sources

(* Program constants *)

MAX_ITEMS_PER_SOURCE == 10
MAX_ITEMS_PER_TOPIC == 20
SummaryWindowHours == 24
TitleMax == 500
UrlMax == 1000
RecencyHours == 6
FallbackPerSource == 5
RecentLogHours == 168
FreshHours == 6
StaleHours == 48
DetailItemLimit == 20

----------------------------------------------------------------------------
(* Strings.  A string is [stem, len]: the prefix of length len of the      *)
(* text named stem, so that slicing keeps the stem and caps the length.    *)
(* Null is Python's None.                                                  *)

Null == [stem |-> "None", len |-> -1]
Empty == [stem |-> "", len |-> 0]
Str(stem, len) == IF len = 0 THEN Empty ELSE [stem |-> stem, len |-> len]

Min(a, b) == IF a <= b THEN a ELSE b

\* bool(s) of a str or None
Truthy(s) == s.len > 0

\* s[:n] of a str
Slice(s, n) == Str(s.stem, Min(s.len, n))

----------------------------------------------------------------------------
(* The configured world: two topics, two sources, three associations.      *)

Topics == {"T1", "T2"}          \* ids of the Topic rows
MissingTopic == "T0"            \* an id with no Topic row
TopicIds == Topics \cup {MissingTopic}
TopicOrder == <<"T1", "T2">>    \* Topic rows in primary-key order
Sources == {"A", "B"}           \* ids of the Source rows

SourceName == [s \in Sources |-> IF s = "A" THEN "feed_a" ELSE "api_b"]

TopicDisplayName == [t \in Topics |-> IF t = "T1" THEN "Tech" ELSE "Science"]
SourceDisplayName == [s \in Sources |-> IF s = "A" THEN "Feed A" ELSE "Api B"]
\* Source.weight * 10 (weights 0.9 and 0.5)
SourceWeight10 == [s \in Sources |-> IF s = "A" THEN 9 ELSE 5]

InitSourceTopics ==
    << [source_id |-> "A", topic_id |-> "T1"],
       [source_id |-> "B", topic_id |-> "T1"],
       [source_id |-> "B", topic_id |-> "T2"] >>

----------------------------------------------------------------------------
(* Adapter output: the dicts a fetch() returns, or the exception it raises *)

NoMeta == [score |-> -1, comments |-> -1]     \* no 'score', no 'comments' key

RawItem(ext, title, url) ==
    [external_id |-> ext, title |-> title, content |-> Str("body", 150),
     url |-> url, metadata |-> NoMeta]

ItemKeyed   == RawItem(Str("e1", 8), Str("Title of the first story", 24), Str("u1", 30))
ItemUrlOnly == RawItem(Null, Str("t2", 5), Str("u1", 30))
ItemNoKey   == RawItem(Null, Str("t3", 5), Empty)
ItemLongUrl == RawItem(Null, Str("t4", 5), Str("u2", 1001))
ItemNullTitle == RawItem(Str("e2", 8), Null, Str("u3", 30))

RawItems == {ItemKeyed, ItemUrlOnly, ItemNoKey, ItemLongUrl, ItemNullTitle}

SeqsUpTo(S, n) == UNION {[1..k -> S] : k \in 0..n}

\* the outputs of at most n items
Batches(n) == SeqsUpTo(RawItems, n)

FetchItems(batch) == [kind |-> "items", detail |-> "", items |-> batch]
FetchRequestError == [kind |-> "RequestException", detail |-> "HTTP 500", items |-> <<>>]
FetchOtherError == [kind |-> "Exception", detail |-> "parse error", items |-> <<>>]

FetchOutcomes(n) == {FetchRequestError, FetchOtherError} \cup {FetchItems(b) : b \in Batches(n)}

----------------------------------------------------------------------------
(* The store: what the first flush of pending rows in a call does.  "flush"
   is a write that raises (the database locked, the disk full); the session
   is then left to be rolled back, which no handler does, so every later
   commit of the call raises too.                                          *)

StoreFaults == {"none", "flush"}

----------------------------------------------------------------------------
(* BaseScraper.save_items                                                  *)

\* a lookup that has lost its url branch: an item without an external_id
\* is never found
ExistingNoUrlFallback(rows, s, item) ==
    /\ Truthy(item.external_id)
    /\ \E k \in 1..Len(rows) :
            rows[k].source_id = s /\ rows[k].external_id = item.external_id

\* a lookup that has lost its source filter: another source's row hides the item
ExistingAnySource(rows, s, item) ==
    IF Truthy(item.external_id)
    THEN \E k \in 1..Len(rows) : rows[k].external_id = item.external_id
    ELSE IF Truthy(item.url)
    THEN \E k \in 1..Len(rows) : rows[k].url = item.url
    ELSE FALSE

\* the duplicate lookup of one item against the rows the session sees
Existing(rows, s, item) ==
    IF Truthy(item.external_id)
    THEN \E k \in 1..Len(rows) :
            rows[k].source_id = s /\ rows[k].external_id = item.external_id
    ELSE IF Truthy(item.url)
    THEN \E k \in 1..Len(rows) :
            rows[k].source_id = s /\ rows[k].url = item.url
    ELSE FALSE

\* a row built without its external_id
ContentItemDropsExternalId(s, t, item, clock) ==
    [source_id |-> s, topic_id |-> t, external_id |-> Null,
     title |-> Slice(item.title, TitleMax), content |-> item.content,
     url |-> Slice(item.url, UrlMax), extra_data |-> item.metadata,
     scraped_at |-> clock]

\* slicing None raises TypeError
RaisesOnBuild(item) == item.title = Null \/ item.url = Null

ContentItem(s, t, item, clock) ==
    [source_id |-> s, topic_id |-> t, external_id |-> item.external_id,
     title |-> Slice(item.title, TitleMax), content |-> item.content,
     url |-> Slice(item.url, UrlMax), extra_data |-> item.metadata,
     scraped_at |-> clock]

\* the loop over items[:MAX_ITEMS_PER_SOURCE]; rows is what the session sees
\* (committed rows followed by the rows added so far, flushed by autoflush
\* before every lookup); seen records every lookup made
RECURSIVE SaveLoop(_, _, _, _, _, _, _)
SaveLoop(rows, s, t, todo, saved, seen, clock) ==
    IF todo = <<>>
    THEN [rows |-> rows, saved |-> saved, raised |-> FALSE, seen |-> seen]
    ELSE LET item == Head(todo)
             ex == Existing(rows, s, item)
             seen2 == Append(seen, [item |-> item, at |-> Len(rows), existing |-> ex])
         IN  IF ex
             THEN SaveLoop(rows, s, t, Tail(todo), saved, seen2, clock)
             ELSE IF RaisesOnBuild(item)
             THEN [rows |-> rows, saved |-> saved, raised |-> TRUE, seen |-> seen2]
             ELSE SaveLoop(Append(rows, ContentItem(s, t, item, clock)), s, t,
                           Tail(todo), saved + 1, seen2, clock)

\* a save_items whose duplicate lookup also filters by topic_id
SaveItemsWithinTopic(rows, s, t, batch, clock) ==
    LET mine == SelectSeq(rows, LAMBDA r : r.topic_id = t)
        r == SaveLoop(mine, s, t, SubSeq(batch, 1, Min(Len(batch), MAX_ITEMS_PER_SOURCE)),
                      0, <<>>, clock)
    IN  [r EXCEPT !.rows = rows \o SubSeq(r.rows, Len(mine) + 1, Len(r.rows))]

SaveItems(rows, s, t, batch, clock) ==
    SaveLoop(rows, s, t, SubSeq(batch, 1, Min(Len(batch), MAX_ITEMS_PER_SOURCE)),
             0, <<>>, clock)

----------------------------------------------------------------------------
(* BaseScraper.log_result and BaseScraper.run                              *)

\* a log whose items_fetched is the number of items the fetch returned
ScrapingLogCountsFetched(s, t, status, prefix, detail, fetched, saved, count, clock) ==
    [source_id |-> s, topic_id |-> t, status |-> status,
     message |-> [prefix |-> prefix, detail |-> detail,
                  fetched |-> fetched, saved |-> saved],
     items_fetched |-> fetched, created_at |-> clock]

ScrapingLog(s, t, status, prefix, detail, fetched, saved, count, clock) ==
    [source_id |-> s, topic_id |-> t, status |-> status,
     message |-> [prefix |-> prefix, detail |-> detail,
                  fetched |-> fetched, saved |-> saved],
     items_fetched |-> count, created_at |-> clock]

\* db.session.add(log); db.session.commit(): the commit also writes whatever
\* the session still holds
LogResult(rows, logRows, s, t, status, prefix, detail, fetched, saved, count, clock) ==
    [items |-> rows,
     logs |-> Append(logRows,
                     ScrapingLog(s, t, status, prefix, detail, fetched, saved, count, clock))]

\* the lookups save_items makes before the session has a row to flush: up
\* to the first item that is not a duplicate
LookupsBeforeFlush(seen) ==
    IF \E i \in 1..Len(seen) : ~seen[i].existing
    THEN SubSeq(seen, 1, CHOOSE i \in 1..Len(seen) :
                            /\ ~seen[i].existing
                            /\ \A j \in 1..(i - 1) : seen[j].existing)
    ELSE seen

\* a run() left with its first except clause only: anything that is not a
\* requests.RequestException gets out, and nothing is logged for it
RunCatchRequestOnly(rows, logRows, s, t, outcome, fault, clock) ==
    IF fault = "flush" \/ outcome.kind = "Exception"
    THEN [items |-> rows, logs |-> logRows, ret |-> 0, escaped |-> TRUE,
          seen |-> IF outcome.kind = "items"
                   THEN LookupsBeforeFlush(SaveItems(rows, s, t, outcome.items, clock).seen)
                   ELSE <<>>]
    ELSE IF outcome.kind = "RequestException"
    THEN LogResult(rows, logRows, s, t, "error", "Request failed", outcome.detail,
                   0, 0, 0, clock)
         @@ [ret |-> 0, escaped |-> FALSE, seen |-> <<>>]
    ELSE LET sv == SaveItems(rows, s, t, outcome.items, clock)
         IN  IF sv.raised
             THEN [items |-> rows, logs |-> logRows, ret |-> 0, escaped |-> TRUE,
                   seen |-> sv.seen]
             ELSE LogResult(sv.rows, logRows, s, t, "success", "Fetched, saved new", "",
                            Len(outcome.items), sv.saved, sv.saved, clock)
                  @@ [ret |-> sv.saved, escaped |-> FALSE, seen |-> sv.seen]

\* a run whose except clause for RequestException logs 'success'
RunLogsSuccessOnRequestError(rows, logRows, s, t, outcome, fault, clock) ==
    IF fault = "flush"
    THEN [items |-> rows, logs |-> logRows, ret |-> 0, escaped |-> TRUE,
          seen |-> IF outcome.kind = "items"
                   THEN LookupsBeforeFlush(SaveItems(rows, s, t, outcome.items, clock).seen)
                   ELSE <<>>]
    ELSE IF outcome.kind = "RequestException"
    THEN LogResult(rows, logRows, s, t, "success", "Request failed", outcome.detail,
                   0, 0, 0, clock)
         @@ [ret |-> 0, escaped |-> FALSE, seen |-> <<>>]
    ELSE IF outcome.kind = "Exception"
    THEN LogResult(rows, logRows, s, t, "error", "Unexpected error", outcome.detail,
                   0, 0, 0, clock)
         @@ [ret |-> 0, escaped |-> FALSE, seen |-> <<>>]
    ELSE LET sv == SaveItems(rows, s, t, outcome.items, clock)
         IN  IF sv.raised
             THEN LogResult(sv.rows, logRows, s, t, "error", "Unexpected error",
                            "TypeError", 0, 0, 0, clock)
                  @@ [ret |-> 0, escaped |-> FALSE, seen |-> sv.seen]
             ELSE LogResult(sv.rows, logRows, s, t, "success", "Fetched, saved new", "",
                            Len(outcome.items), sv.saved, sv.saved, clock)
                  @@ [ret |-> sv.saved, escaped |-> FALSE, seen |-> sv.seen]

\* run(): the new tables, the returned count, whether an exception escaped
Run(rows, logRows, s, t, outcome, fault, clock) ==
    IF fault = "flush"
    THEN \* the first commit that has a row to write raises: in save_items, or
         \* in log_result; the except clause calls log_result, whose commit
         \* raises out of run
         [items |-> rows, logs |-> logRows, ret |-> 0, escaped |-> TRUE,
          seen |-> IF outcome.kind = "items"
                   THEN LookupsBeforeFlush(SaveItems(rows, s, t, outcome.items, clock).seen)
                   ELSE <<>>]
    ELSE IF outcome.kind = "RequestException"
    THEN LogResult(rows, logRows, s, t, "error", "Request failed", outcome.detail,
                   0, 0, 0, clock)
         @@ [ret |-> 0, escaped |-> FALSE, seen |-> <<>>]
    ELSE IF outcome.kind = "Exception"
    THEN LogResult(rows, logRows, s, t, "error", "Unexpected error", outcome.detail,
                   0, 0, 0, clock)
         @@ [ret |-> 0, escaped |-> FALSE, seen |-> <<>>]
    ELSE LET sv == SaveItems(rows, s, t, outcome.items, clock)
         IN  IF sv.raised
             THEN LogResult(sv.rows, logRows, s, t, "error", "Unexpected error",
                            "TypeError", 0, 0, 0, clock)
                  @@ [ret |-> 0, escaped |-> FALSE, seen |-> sv.seen]
             ELSE LogResult(sv.rows, logRows, s, t, "success", "Fetched, saved new", "",
                            Len(outcome.items), sv.saved, sv.saved, clock)
                  @@ [ret |-> sv.saved, escaped |-> FALSE, seen |-> sv.seen]

\* what lastRun records of a call
RunRecord(rows, logRows, s, t, outcome, fault, r) ==
    [called |-> TRUE, source |-> s, topic |-> t, outcome |-> outcome, fault |-> fault,
     ret |-> r.ret, escaped |-> r.escaped, seen |-> r.seen,
     items0 |-> Len(rows), logs0 |-> Len(logRows)]

NoRun ==
    [called |-> FALSE, source |-> "", topic |-> "", outcome |-> FetchItems(<<>>),
     fault |-> "none",
     ret |-> 0, escaped |-> FALSE, seen |-> <<>>, items0 |-> 0, logs0 |-> 0]

----------------------------------------------------------------------------
(* GeminiSummarizer.rank_content                                           *)

\* the tables of db.Model.metadata: item.metadata is the declarative
\* MetaData registry (the JSON column is extra_data), and `key in metadata`
\* asks whether a table has that name
ModelTables ==
    {"topics", "sources", "source_topics", "content_items", "summaries",
     "scraping_logs"}

\* a bonus that reads the score the adapter stored, and has lost its cap
ScoreBonusUncapped(item) ==
    IF item.extra_data.score >= 0 THEN item.extra_data.score * 2 ELSE 0

\* if 'score' in metadata: min(metadata['score'] / 10, 20), in twentieths
ScoreBonus20(item) ==
    IF "score" \in ModelTables THEN Min(item.extra_data.score * 2, 20 * 20) ELSE 0

\* if 'comments' in metadata: min(metadata['comments'] / 20, 10), in twentieths
CommentsBonus20(item) ==
    IF "comments" \in ModelTables THEN Min(item.extra_data.comments, 10 * 20) ELSE 0

\* score_item, in twentieths of a point
ScoreItem20(item, clock) ==
    LET age == clock - item.scraped_at
    IN  SourceWeight10[item.source_id] * 20
        + (IF age < RecencyHours THEN (RecencyHours - age) * 2 * 20 ELSE 0)
        + ScoreBonus20(item)
        + CommentsBonus20(item)
        + (IF item.title.len > 20 THEN 2 * 20 ELSE 0)
        + (IF item.content.len > 100 THEN 3 * 20 ELSE 0)

\* stable sort of <<key, value>> records, greatest key first
RECURSIVE InsertDesc(_, _)
InsertDesc(sorted, p) ==
    IF sorted = <<>> THEN <<p>>
    ELSE IF Head(sorted).key >= p.key
    THEN <<Head(sorted)>> \o InsertDesc(Tail(sorted), p)
    ELSE <<p>> \o sorted

RECURSIVE SortDesc(_)
SortDesc(pairs) ==
    IF pairs = <<>> THEN <<>>
    ELSE InsertDesc(SortDesc(SubSeq(pairs, 1, Len(pairs) - 1)), pairs[Len(pairs)])

Values(pairs) == [k \in 1..Len(pairs) |-> pairs[k].val]

\* an ascending sort turned round: items of equal score change places
RankContentReversed(its, clock) ==
    LET up == Values(SortDesc([k \in 1..Len(its) |->
                                 [key |-> 0 - ScoreItem20(its[k], clock), val |-> its[k]]]))
    IN  [k \in 1..Len(up) |-> up[Len(up) + 1 - k]]

\* sorted(items, key=score_item, reverse=True)
RankContent(its, clock) ==
    Values(SortDesc([k \in 1..Len(its) |->
                        [key |-> ScoreItem20(its[k], clock), val |-> its[k]]]))

----------------------------------------------------------------------------
(* GeminiSummarizer.summarize_content and _simple_summary                  *)

\* what the generative backend does when asked
\* generate_error: generate_content, or reading response.text, raises
Backends == {"unconfigured", "init_error", "generate_error", "empty_text", "text"}

Line(kind, name, title, url, n) ==
    [kind |-> kind, name |-> name, title |-> title, url |-> url, n |-> n]

\* the display names in order of first appearance
RECURSIVE FirstSeen(_, _)
FirstSeen(its, acc) ==
    IF its = <<>> THEN acc
    ELSE LET nm == SourceDisplayName[Head(its).source_id]
         IN  FirstSeen(Tail(its),
                       IF \E k \in 1..Len(acc) : acc[k] = nm THEN acc ELSE Append(acc, nm))

\* a line that also tells the length of the item's body
ItemLineShowsContent(item) ==
    Line("item", "",
         IF Truthy(item.title) THEN item.title ELSE Str("Untitled", 8),
         item.url, item.content.len)

ItemLine(item) ==
    Line("item", "",
         IF Truthy(item.title) THEN item.title ELSE Str("Untitled", 8),
         item.url, 0)

GroupLines(its, nm) ==
    LET mine == SelectSeq(its, LAMBDA it : SourceDisplayName[it.source_id] = nm)
        shown == SubSeq(mine, 1, Min(Len(mine), FallbackPerSource))
    IN  <<Line("from", nm, Empty, Empty, 0)>> \o [k \in 1..Len(shown) |-> ItemLine(shown[k])]

RECURSIVE AllGroups(_, _)
AllGroups(its, names) ==
    IF names = <<>> THEN <<>>
    ELSE GroupLines(its, Head(names)) \o AllGroups(its, Tail(names))

SimpleSummary(its, t) ==
    [kind |-> "fallback",
     lines |-> << Line("heading", TopicDisplayName[t], Empty, Empty, 0),
                  Line("count", "", Empty, Empty, Len(its)) >>
               \o AllGroups(its, FirstSeen(its, <<>>))]

NoNarrative == [kind |-> "none", lines |-> <<>>]        \* None
EmptyNarrative == [kind |-> "empty", lines |-> <<>>]    \* ''
BackendNarrative == [kind |-> "backend", lines |-> <<>>]

SummarizeContent(its, t, backend) ==
    IF its = <<>> THEN NoNarrative
    ELSE IF backend \in {"unconfigured", "init_error"} THEN SimpleSummary(its, t)
    ELSE IF backend = "generate_error" THEN SimpleSummary(its, t)
    ELSE IF backend = "empty_text" THEN EmptyNarrative
    ELSE BackendNarrative

\* bool(summary_text)
NarrativeTruthy(n) == n.kind \in {"fallback", "backend"}

----------------------------------------------------------------------------
(* summarize_topic                                                         *)

\* the query without its cutoff on scraped_at
RecentItemsAnyAge(rows, t, clock) ==
    LET mine == SelectSeq(rows, LAMBDA r : r.topic_id = t)
        byAge == Values(SortDesc([k \in 1..Len(mine) |->
                                    [key |-> mine[k].scraped_at, val |-> mine[k]]]))
    IN  SubSeq(byAge, 1, Min(Len(byAge), MAX_ITEMS_PER_TOPIC))

\* the query ordered by scraped_at ascending: its limit keeps the oldest rows
RecentItemsOldestFirst(rows, t, clock) ==
    LET mine == SelectSeq(rows, LAMBDA r :
                    r.topic_id = t /\ r.scraped_at > clock - SummaryWindowHours)
        byAge == Values(SortDesc([k \in 1..Len(mine) |->
                                    [key |-> 0 - mine[k].scraped_at, val |-> mine[k]]]))
    IN  SubSeq(byAge, 1, Min(Len(byAge), MAX_ITEMS_PER_TOPIC))

\* the query: this topic's rows scraped after the cutoff, newest first,
\* at most MAX_ITEMS_PER_TOPIC of them
RecentItems(rows, t, clock) ==
    LET mine == SelectSeq(rows, LAMBDA r :
                    r.topic_id = t /\ r.scraped_at > clock - SummaryWindowHours)
        byAge == Values(SortDesc([k \in 1..Len(mine) |->
                                    [key |-> mine[k].scraped_at, val |-> mine[k]]]))
    IN  SubSeq(byAge, 1, Min(Len(byAge), MAX_ITEMS_PER_TOPIC))

\* item.source.name of the items
SourceNames(its) == {SourceName[its[k].source_id] : k \in 1..Len(its)}

\* the orders list(set(...)) may yield
Orderings(S) ==
    {q \in [1..Cardinality(S) -> S] : \A x \in S : \E k \in 1..Cardinality(S) : q[k] = x}

Summary(t, narrative, used, count, clock) ==
    [topic_id |-> t, content |-> narrative, sources_used |-> used,
     item_count |-> count, created_at |-> clock]

\* summarize_topic: the new Summary table, whether a Summary was returned and
\* whether the commit raised; order is the order list(set(...)) gives the
\* source names
SummarizeTopic(rows, sums, exists, t, backend, order, fault, clock) ==
    IF ~exists
    THEN [summaries |-> sums, created |-> FALSE, raised |-> FALSE,
          window |-> <<>>, narrative |-> NoNarrative]
    ELSE LET window == RecentItems(rows, t, clock)
             ranked == RankContent(window, clock)
             text == SummarizeContent(ranked, t, backend)
         IN  IF window = <<>>
             THEN [summaries |-> sums, created |-> FALSE, raised |-> FALSE,
                   window |-> window, narrative |-> NoNarrative]
             ELSE IF ~NarrativeTruthy(text)
             THEN [summaries |-> sums, created |-> FALSE, raised |-> FALSE,
                   window |-> window, narrative |-> text]
             ELSE IF fault = "flush"
             THEN [summaries |-> sums, created |-> FALSE, raised |-> TRUE,
                   window |-> window, narrative |-> text]
             ELSE [summaries |-> Append(sums, Summary(t, text, order, Len(ranked), clock)),
                   created |-> TRUE, raised |-> FALSE,
                   window |-> window, narrative |-> text]

\* what lastSum records of a call
SumRecord(sums, t, backend, r) ==
    [called |-> TRUE, topic |-> t,
     backend |-> IF r.window = <<>> THEN "" ELSE backend, created |-> r.created,
     raised |-> r.raised, window |-> r.window, narrative |-> r.narrative,
     before |-> sums]

NoSum ==
    [called |-> FALSE, topic |-> "", backend |-> "", created |-> FALSE,
     raised |-> FALSE, window |-> <<>>, narrative |-> NoNarrative, before |-> <<>>]

----------------------------------------------------------------------------
(* scrape_topic                                                            *)

TopicExists(t) == t \in Topics

\* a loop that does not look at source.enabled
ScrapeListAnySource(t) ==
    IF ~TopicExists(t) THEN <<>>
    ELSE IF ~topicEnabled[t] THEN <<>>
    ELSE LET sts == SelectSeq(sourceTopics, LAMBDA st : st.topic_id = t)
         IN  [k \in 1..Len(sts) |-> sts[k].source_id]

\* the sources scrape_topic runs for a topic, in the order of its loop
ScrapeList(t) ==
    IF ~TopicExists(t) THEN <<>>
    ELSE IF ~topicEnabled[t] THEN <<>>
    ELSE LET sts == SelectSeq(sourceTopics, LAMBDA st : st.topic_id = t)
             run == SelectSeq(sts, LAMBDA st : sourceEnabled[st.source_id])
         IN  [k \in 1..Len(run) |-> run[k].source_id]

\* Topic.query.filter_by(enabled=True).all()
EnabledTopics == SelectSeq(TopicOrder, LAMBDA t : topicEnabled[t])

----------------------------------------------------------------------------
(* The handler in progress                                                 *)

NoJob ==
    [kind |-> "none", phase |-> "idle", topic |-> "", topics |-> <<>>,
     todo |-> <<>>, plan |-> <<>>, trace |-> <<>>, total |-> 0,
     items0 |-> 0, logs0 |-> 0, sums0 |-> 0]

Idle == job.phase \in {"idle", "done"}

\* a handler entered now
NewJob(kind) ==
    [NoJob EXCEPT !.kind = kind, !.items0 = Len(items), !.logs0 = Len(logs),
                  !.sums0 = Len(summaries)]

\* one entry of job.trace: a call of scrape_topic ("topic"), a run, a
\* summarize_topic call, or an exception caught by the handler ("except")
Entry(what, t, s, outcome, ok, n) ==
    [what |-> what, topic |-> t, source |-> s, outcome |-> outcome, ok |-> ok, n |-> n]

NoOutcome == FetchItems(<<>>)

\* a refresh that goes on to summarize_topic while sources are still to run
SettleSummarizesEarly(j) ==
    IF j.kind = "run_topic_scraper" THEN [j EXCEPT !.phase = "summarize"]
    ELSE IF j.todo # <<>> THEN [j EXCEPT !.phase = "scrape"]
    ELSE IF j.topics # <<>> THEN [j EXCEPT !.phase = "topics"]
    ELSE [j EXCEPT !.phase = "done"]

\* where a handler stands once its current call has returned
Settle(j) ==
    IF j.todo # <<>> THEN [j EXCEPT !.phase = "scrape"]
    ELSE IF j.kind = "run_topic_scraper" THEN [j EXCEPT !.phase = "summarize"]
    ELSE IF j.topics # <<>> THEN [j EXCEPT !.phase = "topics"]
    ELSE [j EXCEPT !.phase = "done"]

\* a handler whose loop has no try of its own: the exception ends it
SettleOutOfLoop(j) == [j EXCEPT !.todo = <<>>, !.topics = <<>>, !.phase = "done"]

\* where a handler stands once an exception left scrape_topic or
\* summarize_topic: run_topic_scraper ends, the all-topics loops go on
SettleAfterException(j) ==
    IF j.kind = "run_topic_scraper" THEN [j EXCEPT !.todo = <<>>, !.phase = "done"]
    ELSE Settle([j EXCEPT !.todo = <<>>])

----------------------------------------------------------------------------
\* no side-effect-free call has been made yet
NoCall == [call |-> "none", args |-> <<>>, out |-> <<>>]
NoProbe == [call |-> "none", args |-> <<>>, out |-> <<>>, prev |-> NoCall]

\* probe after a call: the call before it is kept
Called(name, args, out) ==
    [call |-> name, args |-> args, out |-> out,
     prev |-> [call |-> probe.call, args |-> probe.args, out |-> probe.out]]

\* no thread is running
NoThreads == <<>>

Init ==
    /\ probe = NoProbe
    /\ threads = NoThreads
    /\ topicEnabled = [t \in Topics |-> TRUE]
    /\ sourceEnabled = [s \in Sources |-> TRUE]
    /\ sourceTopics = InitSourceTopics
    /\ items = <<>>
    /\ logs = <<>>
    /\ summaries = <<>>
    /\ now = 0
    /\ job = NoJob
    /\ lastRun = NoRun
    /\ prevRun = NoRun
    /\ lastSum = NoSum
    /\ spent = [calls |-> 0, jobs |-> 0, toggles |-> 0, fetched |-> 0]

\* scrape_source(source, topic_id) called on its own; o is what the adapter's
\* fetch does, f what the store does
ScrapeSource(s, t, o, f) ==
    /\ Idle
    /\ Len(o.items) <= MaxFetched - spent.fetched
    /\  LET r == Run(items, logs, s, t, o, f, now)
        IN  /\ items' = r.items
            /\ logs' = r.logs
            /\ lastRun' = RunRecord(items, logs, s, t, o, f, r)
            /\ spent' = [spent EXCEPT !.calls = @ + 1,
                                       !.fetched = @ + Len(o.items)]
    /\ prevRun' = lastRun
    /\ job' = NoJob
    /\ lastSum' = NoSum
    /\ UNCHANGED <<probe, threads, topicEnabled, sourceEnabled, sourceTopics, summaries, now>>

\* the body of scrape_topic's loop: one scrape_source for the head of
\* job.todo; o is what the adapter's fetch does, f what the store does
ScrapeStep(o, f) ==
    /\ job.phase = "scrape"
    /\ Len(o.items) <= MaxFetched - spent.fetched
    /\  LET s == Head(job.todo)
            r == Run(items, logs, s, job.topic, o, f, now)
            e == Entry("run", job.topic, s, o, ~r.escaped /\ r.logs[Len(r.logs)].status = "success", r.ret)
        IN  /\ items' = r.items
            /\ logs' = r.logs
            /\ lastRun' = RunRecord(items, logs, s, job.topic, o, f, r)
            /\ spent' = [spent EXCEPT !.fetched = @ + Len(o.items)]
            /\ job' = IF r.escaped
                      THEN SettleAfterException(
                               [job EXCEPT !.trace = Append(job.trace,
                                   Entry("except", job.topic, s, o, FALSE, 0))])
                      ELSE Settle([job EXCEPT !.todo = Tail(job.todo),
                                              !.total = job.total + r.ret,
                                              !.trace = Append(job.trace, e)])
    /\ prevRun' = lastRun
    /\ UNCHANGED <<probe, threads, topicEnabled, sourceEnabled, sourceTopics, summaries, now, lastSum>>

\* run_topic_scraper(topic_id): scrape_topic looks the topic up and lists its sources
RunTopicScraper(t) ==
    /\ Idle
    /\ job' = Settle([NewJob("run_topic_scraper") EXCEPT
                        !.topic = t, !.todo = ScrapeList(t), !.plan = ScrapeList(t)])
    /\ spent' = [spent EXCEPT !.jobs = @ + 1]
    /\ lastRun' = NoRun /\ prevRun' = NoRun /\ lastSum' = NoSum
    /\ UNCHANGED <<probe, threads, topicEnabled, sourceEnabled, sourceTopics, items, logs, summaries, now>>

\* run_topic_scraper, after scrape_topic returned: summarize_topic(topic_id)
RefreshSummarizeStep(b, f) ==
    /\ job.phase = "summarize"
    /\ \E order \in Orderings(SourceNames(RecentItems(items, job.topic, now))) :
        LET r == SummarizeTopic(items, summaries, TopicExists(job.topic), job.topic,
                                b, order, f, now)
        IN  /\ summaries' = r.summaries
            /\ lastSum' = SumRecord(summaries, job.topic, b, r)
            /\ job' = [job EXCEPT !.phase = "done",
                          !.trace = Append(job.trace,
                              IF r.raised
                              THEN Entry("except", job.topic, "", NoOutcome, FALSE, 0)
                              ELSE Entry("summarize", job.topic, "", NoOutcome,
                                         r.created, Len(r.window)))]
    /\ UNCHANGED <<probe, threads, topicEnabled, sourceEnabled, sourceTopics, items, logs, now,
                   lastRun, prevRun, spent>>

\* summarize_topic(topic_id) called on its own
SummarizeTopicCall(t, b, f) ==
    /\ Idle
    /\ \E order \in Orderings(SourceNames(RecentItems(items, t, now))) :
        LET r == SummarizeTopic(items, summaries, TopicExists(t), t, b, order, f, now)
        IN  /\ summaries' = r.summaries
            /\ lastSum' = SumRecord(summaries, t, b, r)
    /\ job' = NoJob
    /\ spent' = [spent EXCEPT !.calls = @ + 1]
    /\ lastRun' = NoRun /\ prevRun' = NoRun
    /\ UNCHANGED <<probe, threads, topicEnabled, sourceEnabled, sourceTopics, items, logs, now>>

\* run_all_scrapers(): list the enabled topics
RunAllScrapers ==
    /\ Idle
    /\ job' = Settle([NewJob("run_all_scrapers") EXCEPT
                        !.topics = EnabledTopics, !.plan = EnabledTopics])
    /\ spent' = [spent EXCEPT !.jobs = @ + 1]
    /\ lastRun' = NoRun /\ prevRun' = NoRun /\ lastSum' = NoSum
    /\ UNCHANGED <<probe, threads, topicEnabled, sourceEnabled, sourceTopics, items, logs, summaries, now>>

\* run_all_scrapers, the body of its loop: scrape_topic(topic.id) is entered
AllScrapeTopicStep ==
    /\ job.kind = "run_all_scrapers"
    /\ job.phase = "topics"
    /\ LET t == Head(job.topics)
       IN  job' = Settle([job EXCEPT !.topic = t,
                                     !.topics = Tail(job.topics),
                                     !.todo = ScrapeList(t),
                                     !.trace = Append(job.trace,
                                         Entry("topic", t, "", NoOutcome, TRUE, 0))])
    /\ UNCHANGED <<probe, threads, topicEnabled, sourceEnabled, sourceTopics, items, logs, summaries,
                   now, lastRun, prevRun, lastSum, spent>>

\* run_all_summarizers(): list the enabled topics
RunAllSummarizers ==
    /\ Idle
    /\ job' = Settle([NewJob("run_all_summarizers") EXCEPT
                        !.topics = EnabledTopics, !.plan = EnabledTopics])
    /\ spent' = [spent EXCEPT !.jobs = @ + 1]
    /\ lastRun' = NoRun /\ prevRun' = NoRun /\ lastSum' = NoSum
    /\ UNCHANGED <<probe, threads, topicEnabled, sourceEnabled, sourceTopics, items, logs, summaries, now>>

\* summarize_all_topics(): list the enabled topics
SummarizeAllTopics ==
    /\ Idle
    /\ job' = Settle([NewJob("summarize_all_topics") EXCEPT
                        !.topics = EnabledTopics, !.plan = EnabledTopics])
    /\ spent' = [spent EXCEPT !.jobs = @ + 1]
    /\ lastRun' = NoRun /\ prevRun' = NoRun /\ lastSum' = NoSum
    /\ UNCHANGED <<probe, threads, topicEnabled, sourceEnabled, sourceTopics, items, logs, summaries, now>>

\* the body of the loop of run_all_summarizers and of summarize_all_topics:
\* summarize_topic(topic.id) returns, or raises and the loop logs that and goes on
AllSummarizeTopicStep(b, f) ==
    /\ job.kind \in {"run_all_summarizers", "summarize_all_topics"}
    /\ job.phase = "topics"
    /\ \E order \in Orderings(SourceNames(RecentItems(items, Head(job.topics), now))) :
        LET t == Head(job.topics)
            r == SummarizeTopic(items, summaries, TopicExists(t), t, b, order, f, now)
        IN  /\ summaries' = r.summaries
            /\ lastSum' = SumRecord(summaries, t, b, r)
            /\ job' = IF r.raised
                      THEN SettleAfterException(
                            [job EXCEPT !.topic = t,
                                        !.topics = Tail(job.topics),
                                        !.trace = Append(job.trace,
                                            Entry("except", t, "", NoOutcome, FALSE, 0))])
                      ELSE Settle([job EXCEPT
                            !.topic = t,
                            !.topics = Tail(job.topics),
                            !.total = IF job.kind = "run_all_summarizers" /\ r.created
                                      THEN job.total + 1 ELSE job.total,
                            !.trace = Append(job.trace,
                                Entry("summarize", t, "", NoOutcome, r.created,
                                      Len(r.window)))])
    /\ UNCHANGED <<probe, threads, topicEnabled, sourceEnabled, sourceTopics, items, logs, now,
                   lastRun, prevRun, spent>>

\* admin toggle_topic
ToggleTopic(t) ==
    /\ Idle
    /\ topicEnabled' = [topicEnabled EXCEPT ![t] = ~@]
    /\ spent' = [spent EXCEPT !.toggles = @ + 1]
    /\ job' = NoJob /\ lastRun' = NoRun /\ prevRun' = NoRun /\ lastSum' = NoSum
    /\ UNCHANGED <<probe, threads, sourceEnabled, sourceTopics, items, logs, summaries, now>>

\* the clock moves on by a summary window
Tick ==
    /\ Idle
    /\ now' = now + SummaryWindowHours
    /\ spent' = [spent EXCEPT !.calls = @ + 1]
    /\ job' = NoJob /\ lastRun' = NoRun /\ prevRun' = NoRun /\ lastSum' = NoSum
    /\ UNCHANGED <<probe, threads, topicEnabled, sourceEnabled, sourceTopics, items, logs, summaries>>

----------------------------------------------------------------------------
(* Specifications                                                          *)

\* the Ingestion Runner alone: any sequence of runs for the associated
\* sources and topics, on a store whose writes may fail
NextIngest ==
    /\ spent.calls < MaxRuns
    /\ \E k \in 1..Len(sourceTopics), o \in FetchOutcomes(MaxFetched), f \in StoreFaults :
            ScrapeSource(sourceTopics[k].source_id, sourceTopics[k].topic_id, o, f)

SpecIngest == Init /\ [][NextIngest]_vars

\* what the adapters return during the refreshes: a failed request, or items
\* with an external_id or with a title of None
RefreshOutcomes ==
    {FetchRequestError}
        \cup {FetchItems(b) : b \in SeqsUpTo({ItemKeyed, ItemNullTitle}, MaxFetched)}

\* the backend during the refreshes: it raises, answers nothing, or answers
RefreshBackends == {"generate_error", "empty_text", "text"}

\* manual refreshes of one topic (admin refresh_topic) between which topics
\* are switched off and on, on a store that works
NextRefresh ==
    \/ spent.jobs < MaxJobs /\ \E t \in TopicIds : RunTopicScraper(t)
    \/ spent.toggles < MaxToggles /\ \E t \in Topics : ToggleTopic(t)
    \/ \E o \in RefreshOutcomes : ScrapeStep(o, "none")
    \/ \E b \in RefreshBackends : RefreshSummarizeStep(b, "none")

SpecRefresh == Init /\ [][NextRefresh]_vars

\* what the adapters return before the summaries are asked for
SummarizeOutcomes ==
    {FetchItems(b) : b \in SeqsUpTo({ItemKeyed, ItemNoKey}, MaxFetched)}

\* summarize_topic called for any topic id, between runs that fill the store
\* and hours that pass
NextSummarize ==
    /\ spent.calls < MaxCalls
    /\ \/ \E k \in 1..Len(sourceTopics), o \in SummarizeOutcomes :
            ScrapeSource(sourceTopics[k].source_id, sourceTopics[k].topic_id, o, "none")
       \/ \E t \in TopicIds, b \in Backends, f \in StoreFaults :
            SummarizeTopicCall(t, b, f)
       \/ Tick

SpecSummarize == Init /\ [][NextSummarize]_vars

\* what the adapters return and the store does during the all-topics jobs
BatchRuns ==
    { <<FetchRequestError, "none">>,
      <<FetchItems(<<ItemKeyed>>), "none">>,
      <<FetchItems(<<ItemKeyed>>), "flush">> }

\* the scheduled jobs and the admin's manual refresh of everything, between
\* which topics are switched off and on, on a store whose writes may fail
NextBatch ==
    \/ spent.jobs < MaxJobs /\ RunAllScrapers
    \/ spent.jobs < MaxJobs /\ RunAllSummarizers
    \/ spent.jobs < MaxJobs /\ SummarizeAllTopics
    \/ spent.toggles < MaxToggles /\ \E t \in Topics : ToggleTopic(t)
    \/ AllScrapeTopicStep
    \/ \E of \in BatchRuns : ScrapeStep(of[1], of[2])
    \/ \E b \in RefreshBackends, f \in StoreFaults : AllSummarizeTopicStep(b, f)

SpecBatch == Init /\ [][NextBatch]_vars

----------------------------------------------------------------------------
(* The Ingestion Runner: deduplication and failure handling                *)

\* the items save_items looks at
Examined(outcome) ==
    SubSeq(outcome.items, 1, Min(Len(outcome.items), MAX_ITEMS_PER_SOURCE))

\* an item whose stored row the lookup of a later run finds again
Findable(item) ==
    \/ Truthy(item.external_id)
    \/ Truthy(item.url) /\ item.url.len <= UrlMax

AllFindable(outcome) ==
    \A i \in 1..Len(Examined(outcome)) : Findable(Examined(outcome)[i])

\* the last two runs were for the same source and got the same adapter output
RanTwice ==
    /\ prevRun.called
    /\ lastRun.called
    /\ lastRun.source = prevRun.source
    /\ lastRun.outcome = prevRun.outcome

\* C1, as stated: a second run for the same source with identical adapter
\* output saves 0 items and leaves the number of ContentItems where the first
\* run left it.
C1_SecondRunSavesNothing ==
    RanTwice => lastRun.ret = 0 /\ Len(items) = lastRun.items0

\* C1, amended: the same, when the store took the first run's writes and
\* every item looked at has a non-empty external_id or a non-empty url of at
\* most UrlMax characters.
C1_SecondRunSavesNothingWhenFindable ==
    (RanTwice /\ prevRun.fault = "none" /\ AllFindable(lastRun.outcome))
        => lastRun.ret = 0 /\ Len(items) = lastRun.items0

\* a second identical run after a first one that saved an item found by its url
C1_Witness ==
    /\ RanTwice
    /\ prevRun.fault = "none"
    /\ lastRun.fault = "none"
    /\ lastRun.outcome = FetchItems(<<ItemUrlOnly>>)
    /\ prevRun.ret = 1
    /\ lastRun.ret = 0
    /\ Len(items) = lastRun.items0

\* the key the lookup of a stored row goes by: the external_id, else the url
DedupKey(row) ==
    IF Truthy(row.external_id) THEN <<"external_id", row.external_id>>
    ELSE <<"url", row.url>>

\* C2, as stated: no two stored ContentItems of one source share a
\* deduplication key (the external_id when present, otherwise the url).
C2_NoSharedKey ==
    \A i, j \in 1..Len(items) :
        (i < j /\ items[i].source_id = items[j].source_id)
            => DedupKey(items[i]) # DedupKey(items[j])

\* C2, amended: no two stored ContentItems of one source share a non-empty
\* external_id, and no two of them that both lack an external_id share a
\* non-empty url shorter than UrlMax characters.
C2_NoSharedFindableKey ==
    \A i, j \in 1..Len(items) :
        (i < j /\ items[i].source_id = items[j].source_id)
            => /\ ~(/\ Truthy(items[i].external_id)
                    /\ items[i].external_id = items[j].external_id)
               /\ ~(/\ ~Truthy(items[i].external_id)
                    /\ ~Truthy(items[j].external_id)
                    /\ Truthy(items[i].url)
                    /\ items[i].url.len < UrlMax
                    /\ items[i].url = items[j].url)

\* a batch that repeats a url-only item: one new row, the repeat skipped
C2_Witness ==
    /\ lastRun.called
    /\ lastRun.outcome = FetchItems(<<ItemUrlOnly, ItemUrlOnly>>)
    /\ lastRun.ret = 1
    /\ Len(items) = 1

\* C3: an item without an external_id is skipped exactly when a stored row of
\* the same source has its url, and an item with neither external_id nor url
\* is never skipped: each run whose writes the store takes stores a row for it.
C3_UrlFallback ==
    lastRun.called =>
        \A i \in 1..Len(lastRun.seen) :
            LET e == lastRun.seen[i]
            IN  ~Truthy(e.item.external_id) =>
                  /\ e.existing =
                        (/\ Truthy(e.item.url)
                         /\ \E k \in 1..e.at :
                                /\ items[k].source_id = lastRun.source
                                /\ items[k].url = e.item.url)
                  /\ (/\ ~Truthy(e.item.url)
                      /\ ~RaisesOnBuild(e.item)
                      /\ lastRun.fault = "none") =>
                        /\ Len(items) > e.at
                        /\ items[e.at + 1].source_id = lastRun.source
                        /\ items[e.at + 1].external_id = e.item.external_id
                        /\ items[e.at + 1].url = Empty
                        /\ items[e.at + 1].title = e.item.title

\* a url-only item looked up by its url and skipped for the row an earlier
\* run of the same source stored under another topic
C3_Witness ==
    /\ lastRun.called
    /\ lastRun.seen = <<[item |-> ItemUrlOnly, at |-> 1, existing |-> TRUE]>>
    /\ items[1].source_id = lastRun.source
    /\ items[1].topic_id # lastRun.topic
    /\ items[1].url = ItemUrlOnly.url

\* the run failed: the fetch raised, building a row in save_items did, or
\* the store did
RunFailure(r) ==
    \/ r.fault # "none"
    \/ r.outcome.kind # "items"
    \/ /\ r.seen # <<>>
       /\ ~r.seen[Len(r.seen)].existing
       /\ RaisesOnBuild(r.seen[Len(r.seen)].item)

\* C4: run never lets an exception out; when the fetch or the save fails it
\* returns 0 and writes exactly one ScrapingLog, of status 'error', for its
\* source and topic, whose message describes the failure.
C4_RunNeverThrows ==
    lastRun.called =>
        /\ ~lastRun.escaped
        /\ RunFailure(lastRun) =>
            /\ lastRun.ret = 0
            /\ Len(logs) = lastRun.logs0 + 1
            /\ logs[Len(logs)].status = "error"
            /\ logs[Len(logs)].source_id = lastRun.source
            /\ logs[Len(logs)].topic_id = lastRun.topic
            /\ logs[Len(logs)].message.detail =
                    (IF lastRun.outcome.kind = "items" THEN "TypeError"
                     ELSE lastRun.outcome.detail)

----------------------------------------------------------------------------
(* The orchestrator: one topic refreshed                                   *)

RunEntries(trace) == SelectSeq(trace, LAMBDA e : e.what = "run")

\* a refresh of one topic has returned
Refreshed == job.kind = "run_topic_scraper" /\ job.phase = "done"

\* the enabled sources associated with a topic
EnabledSourcesOf(t) ==
    {s \in Sources : sourceEnabled[s]
                     /\ \E k \in 1..Len(sourceTopics) :
                            /\ sourceTopics[k].source_id = s
                            /\ sourceTopics[k].topic_id = t}

\* the rows the handler in progress has added for a source and its topic
RowsAddedFor(s) ==
    {k \in (job.items0 + 1)..Len(items) :
        items[k].source_id = s /\ items[k].topic_id = job.topic}

\* the rows of a topic scraped within the summary window
RecentRows(t) ==
    {k \in 1..Len(items) :
        items[k].topic_id = t /\ items[k].scraped_at > now - SummaryWindowHours}

WellFormedNew(batch) ==
    /\ \A i \in 1..Len(batch) : ~RaisesOnBuild(batch[i])
    /\ \A i, j \in 1..Len(batch) :
        i < j => ~Existing(<<ContentItem("A", "T1", batch[i], 0)>>, "A", batch[j])

\* C6: topic T1 with sources A and B and an empty store; A returns k
\* well-formed new items, B's request fails.  After the refresh there are
\* exactly k ContentItems, one 'success' log for A, one 'error' log for B, and
\* one Summary with sources_used = [A] and item_count = k.
C6_RefreshEndToEnd ==
    (/\ Refreshed
     /\ job.topic = "T1"
     /\ job.items0 = 0 /\ job.logs0 = 0 /\ job.sums0 = 0
     /\ Len(job.trace) = 3
     /\ job.trace[1].what = "run" /\ job.trace[1].source = "A"
     /\ job.trace[1].outcome.kind = "items"
     /\ Len(job.trace[1].outcome.items) >= 1
     /\ Len(job.trace[1].outcome.items) <= MAX_ITEMS_PER_SOURCE
     /\ WellFormedNew(job.trace[1].outcome.items)
     /\ job.trace[2].what = "run" /\ job.trace[2].source = "B"
     /\ job.trace[2].outcome = FetchRequestError)
    => LET k == Len(job.trace[1].outcome.items)
       IN  /\ Len(items) = k
           /\ Len(logs) = 2
           /\ logs[1].source_id = "A" /\ logs[1].status = "success"
           /\ logs[2].source_id = "B" /\ logs[2].status = "error"
           /\ Len(summaries) = 1
           /\ summaries[1].sources_used = <<SourceName["A"]>>
           /\ summaries[1].item_count = k

\* C8: a refresh of a missing or disabled topic runs no adapter and writes no
\* ContentItem, no ScrapingLog and no Summary, whatever recent items the topic
\* has.
C8_DisabledTopicUntouched ==
    (/\ Refreshed
     /\ ~(TopicExists(job.topic) /\ topicEnabled[job.topic]))
    => /\ RunEntries(job.trace) = <<>>
       /\ Len(items) = job.items0
       /\ Len(logs) = job.logs0
       /\ Len(summaries) = job.sums0

----------------------------------------------------------------------------
(* The orchestrator: all topics                                            *)

AllTopicsJobs == {"run_all_scrapers", "run_all_summarizers", "summarize_all_topics"}

\* what the loop of an all-topics job did with each topic it came to
TopicEntries(trace) ==
    SelectSeq(trace, LAMBDA e : e.what \in {"topic", "summarize", "except"}
                                 /\ e.source = "")

----------------------------------------------------------------------------
(* summarize_topic                                                         *)

\* C9: summarize_topic for a topic with no ContentItem scraped in the last
\* SummaryWindowHours hours returns nothing without raising and leaves the
\* Summary table as it was.
C9_NoRecentContentSkipped ==
    (lastSum.called /\ RecentRows(lastSum.topic) = {})
    => /\ ~lastSum.created
       /\ ~lastSum.raised
       /\ summaries = lastSum.before

\* a topic whose only items are a summary window old
C9_Witness ==
    /\ lastSum.called
    /\ RecentRows(lastSum.topic) = {}
    /\ \E k \in 1..Len(items) : items[k].topic_id = lastSum.topic
    /\ ~lastSum.created

\* C10: summarize_content returns nothing only for an empty item list, and on
\* any backend failure, an empty response text included, it returns the
\* fallback text: summarize_topic persists a Summary whenever the topic has
\* recent items (and the store takes the write).
C10_SummaryWheneverRecentItems ==
    (/\ lastSum.called
     /\ ~lastSum.raised
     /\ TopicExists(lastSum.topic)
     /\ RecentRows(lastSum.topic) # {})
    => /\ NarrativeTruthy(lastSum.narrative)
       /\ lastSum.backend # "text" =>
            lastSum.narrative = SimpleSummary(RankContent(lastSum.window, now),
                                              lastSum.topic)
       /\ lastSum.created
       /\ Len(summaries) = Len(lastSum.before) + 1

----------------------------------------------------------------------------
(* SourceSelector: _calculate_source_score, rank_sources and               *)
(* select_diverse_sources, on a configuration of four sources.  A Source   *)
(* handed to the selector is [id, source_type, weight10].                  *)

SelSources == Sources \cup {"C", "D"}
SelOrder == <<"A", "B", "C", "D">>      \* Source rows in primary-key order

SourceTypeOf == [s \in SelSources |-> IF s = "B" THEN "api" ELSE "rss"]
\* Source.weight * 10 (weights 0.9, 0.5, 0.5 and 0.7)
SelWeight10 ==
    [s \in SelSources |-> IF s = "A" THEN 9 ELSE IF s = "D" THEN 7 ELSE 5]

SourceRow(s) == [id |-> s, source_type |-> SourceTypeOf[s], weight10 |-> SelWeight10[s]]

\* a score that has lost its base: the configured weight counts for nothing
CalculateSourceScoreNoWeight(source, logRows, itemRows, clock) ==
    LET recent == SelectSeq(logRows, LAMBDA l :
                     l.source_id = source.id /\ l.created_at > clock - RecentLogHours)
        succ == Len(SelectSeq(recent, LAMBDA l : l.status = "success"))
        mine == {k \in 1..Len(itemRows) : itemRows[k].source_id = source.id}
        latest == CHOOSE k \in mine : \A j \in mine : itemRows[j].scraped_at <= itemRows[k].scraped_at
        hours == clock - itemRows[latest].scraped_at
    IN  (IF recent # <<>> THEN (succ * 30 * 12) \div Len(recent) ELSE 0)
        + (IF mine = {} THEN 0
           ELSE IF hours < FreshHours THEN 20 * 12
           ELSE IF hours > StaleHours THEN 0 - 10 * 12
           ELSE 0)

\* _calculate_source_score, in twelfths of a point (exact while a source has
\* at most six recent logs)
CalculateSourceScore(source, logRows, itemRows, clock) ==
    LET recent == SelectSeq(logRows, LAMBDA l :
                     l.source_id = source.id /\ l.created_at > clock - RecentLogHours)
        succ == Len(SelectSeq(recent, LAMBDA l : l.status = "success"))
        mine == {k \in 1..Len(itemRows) : itemRows[k].source_id = source.id}
        latest == CHOOSE k \in mine : \A j \in mine : itemRows[j].scraped_at <= itemRows[k].scraped_at
        hours == clock - itemRows[latest].scraped_at
    IN  source.weight10 * 10 * 12
        + (IF recent # <<>> THEN (succ * 30 * 12) \div Len(recent) ELSE 0)
        + (IF mine = {} THEN 0
           ELSE IF hours < FreshHours THEN 20 * 12
           ELSE IF hours > StaleHours THEN 0 - 10 * 12
           ELSE 0)

\* scored_sources.sort(key=score, reverse=True): stable, greatest score first
RankSources(sources, logRows, itemRows, clock) ==
    Values(SortDesc([k \in 1..Len(sources) |->
              [key |-> CalculateSourceScore(sources[k], logRows, itemRows, clock),
               val |-> sources[k]]]))

\* a test that keeps no slot for a new type: the best max_count sources
FillsSlotNoReserve(selected, max_count) == Len(selected) < max_count

\* elif len(selected) < max_count - 1
FillsSlot(selected, max_count) == Len(selected) < max_count - 1

\* for source in ranked[1:]
RECURSIVE SelectLoop(_, _, _, _)
SelectLoop(rest, selected, types, max_count) ==
    IF rest = <<>> \/ Len(selected) >= max_count THEN selected
    ELSE LET source == Head(rest)
         IN  IF source.source_type \notin types
             THEN SelectLoop(Tail(rest), Append(selected, source),
                             types \cup {source.source_type}, max_count)
             ELSE IF FillsSlot(selected, max_count)
             THEN SelectLoop(Tail(rest), Append(selected, source), types, max_count)
             ELSE SelectLoop(Tail(rest), selected, types, max_count)

\* a selection that walks the sources as given, without rank_sources
SelectDiverseSourcesUnranked(sources, max_count, logRows, itemRows, clock) ==
    IF Len(sources) <= max_count THEN sources
    ELSE IF sources = <<>> THEN <<>>
    ELSE SelectLoop(Tail(sources), <<sources[1]>>, {sources[1].source_type}, max_count)

SelectDiverseSources(sources, max_count, logRows, itemRows, clock) ==
    IF Len(sources) <= max_count THEN sources
    ELSE LET ranked == RankSources(sources, logRows, itemRows, clock)
         IN  IF ranked = <<>> THEN <<>>
             ELSE SelectLoop(Tail(ranked), <<ranked[1]>>, {ranked[1].source_type}, max_count)

----------------------------------------------------------------------------
(* summarize_content called on its own                                     *)

\* rows as save_items leaves them; RowAlphaAgain differs from RowAlpha in
\* everything but source, title and url
RowAlpha == ContentItem("A", "T1", ItemKeyed, 0)
RowAlphaAgain ==
    [RowAlpha EXCEPT !.external_id = Str("e9", 8), !.content = Empty,
                     !.scraped_at = 5, !.topic_id = "T2",
                     !.extra_data = [score |-> 1000, comments |-> 400]]
RowUntitled == ContentItem("B", "T1", RawItem(Null, Empty, Empty), 0)

\* at most MaxItems rows of source A, then possibly an untitled row of
\* source B; and lists longer than the per-source limit
FallbackLists ==
    LET ofA == SeqsUpTo({RowAlpha, RowAlphaAgain}, MaxItems)
    IN  ofA \cup {Append(l, RowUntitled) : l \in ofA}
            \cup {[k \in 1..(FallbackPerSource + 1) |-> r] : r \in {RowAlpha, RowAlphaAgain}}

\* no API key; generate_content raises
FallbackBackends == {"unconfigured", "generate_error"}

SummarizeContentCall(its, t, b) ==
    /\ Idle
    /\ probe' = Called("summarize_content", [items |-> its, topic |-> t, backend |-> b],
                       SummarizeContent(its, t, b))
    /\ UNCHANGED <<topicEnabled, sourceEnabled, sourceTopics, items, logs, summaries,
                   now, job, lastRun, prevRun, lastSum, spent, threads>>

NextFallback ==
    \E its \in FallbackLists, t \in Topics, b \in FallbackBackends :
        SummarizeContentCall(its, t, b)

SpecFallback == Init /\ [][NextFallback]_vars

\* what the fallback text may depend on
FallbackView(its) ==
    [k \in 1..Len(its) |->
        <<SourceDisplayName[its[k].source_id], its[k].title, its[k].url>>]

FailingBackend(b) == b \in {"unconfigured", "init_error", "generate_error"}

TwoFallbackCalls ==
    /\ probe.call = "summarize_content"
    /\ probe.prev.call = "summarize_content"
    /\ FailingBackend(probe.args.backend)
    /\ FailingBackend(probe.prev.args.backend)
    /\ probe.args.items # <<>>

\* C11: with a failing or absent backend, two summarize_content calls whose
\* item lists agree, position by position, on source display name, title and
\* url, and whose topics have the same display name, return the same fallback
\* text (in particular two calls on the same list and topic do).
C11_FallbackDeterminism ==
    (/\ TwoFallbackCalls
     /\ TopicDisplayName[probe.args.topic] = TopicDisplayName[probe.prev.args.topic]
     /\ FallbackView(probe.args.items) = FallbackView(probe.prev.args.items))
    => /\ probe.out = probe.prev.out
       /\ probe.out.kind = "fallback"

\* two calls, one failing at generation and one without a backend, on lists
\* that differ in body, key, age and metadata only
C11_Witness ==
    /\ TwoFallbackCalls
    /\ probe.args.topic = probe.prev.args.topic
    /\ probe.args.backend # probe.prev.args.backend
    /\ probe.args.items = <<RowAlpha, RowUntitled>>
    /\ probe.prev.args.items = <<RowAlphaAgain, RowUntitled>>
    /\ probe.out = probe.prev.out
    /\ Len(probe.out.lines) = 6

----------------------------------------------------------------------------
(* The selector called on its own, over a store with some history          *)

SelNow == 200       \* the clock, late enough for a log to be a week old

\* what the store holds about one source
Profiles == {"none", "good", "mixed"}

ProfileLogs(s, p) ==
    IF p = "good"
    THEN <<ScrapingLog(s, "T1", "success", "Fetched, saved new", "", 1, 1, 1, SelNow - 1)>>
    ELSE IF p = "mixed"
    THEN <<ScrapingLog(s, "T1", "error", "Request failed", "HTTP 500", 0, 0, 0, 0),
           ScrapingLog(s, "T1", "success", "Fetched, saved new", "", 1, 1, 1, SelNow - 100),
           ScrapingLog(s, "T1", "error", "Request failed", "HTTP 500", 0, 0, 0, SelNow - 10)>>
    ELSE <<>>

ProfileItems(s, p) ==
    IF p = "good" THEN <<ContentItem(s, "T1", ItemKeyed, SelNow - 1)>>
    ELSE IF p = "mixed" THEN <<ContentItem(s, "T1", ItemKeyed, SelNow - 100)>>
    ELSE <<>>

RECURSIVE SelLogs(_, _)
SelLogs(order, prof) ==
    IF order = <<>> THEN <<>>
    ELSE ProfileLogs(Head(order), prof[Head(order)]) \o SelLogs(Tail(order), prof)

RECURSIVE SelItems(_, _)
SelItems(order, prof) ==
    IF order = <<>> THEN <<>>
    ELSE ProfileItems(Head(order), prof[Head(order)]) \o SelItems(Tail(order), prof)

\* lists of distinct Source rows, in any order
SelLists ==
    {[k \in 1..Len(l) |-> SourceRow(l[k])] :
        l \in {m \in SeqsUpTo(SelSources, Cardinality(SelSources)) :
                  \A i, j \in 1..Len(m) : i # j => m[i] # m[j]}}

Request(op, sources, max_count) ==
    [call |-> "request",
     args |-> [op |-> op, sources |-> sources, max_count |-> max_count],
     out |-> <<>>, prev |-> NoCall]

InitSelect ==
    /\ \E prof \in [SelSources -> Profiles] :
          /\ logs = SelLogs(SelOrder, prof)
          /\ items = SelItems(SelOrder, prof)
    /\ probe \in {Request("select_diverse_sources", l, n) : l \in SelLists, n \in 0..MaxCap}
                 \cup {Request("rank_sources", l, 0) : l \in SelLists}
    /\ now = SelNow
    /\ topicEnabled = [t \in Topics |-> TRUE]
    /\ sourceEnabled = [s \in SelSources |-> TRUE]
    /\ sourceTopics = [k \in 1..Len(SelOrder) |-> [source_id |-> SelOrder[k], topic_id |-> "T1"]]
    /\ summaries = <<>>
    /\ job = NoJob
    /\ lastRun = NoRun
    /\ prevRun = NoRun
    /\ lastSum = NoSum
    /\ spent = [calls |-> 0, jobs |-> 0, toggles |-> 0, fetched |-> 0]
    /\ threads = NoThreads

SelectDiverseSourcesCall ==
    /\ probe.call = "request"
    /\ probe.args.op = "select_diverse_sources"
    /\ probe' = [probe EXCEPT !.call = "select_diverse_sources",
                              !.out = SelectDiverseSources(probe.args.sources,
                                          probe.args.max_count, logs, items, now)]
    /\ UNCHANGED <<topicEnabled, sourceEnabled, sourceTopics, items, logs, summaries,
                   now, job, lastRun, prevRun, lastSum, spent, threads>>

RankSourcesCall ==
    /\ probe.call = "request"
    /\ probe.args.op = "rank_sources"
    /\ probe' = [probe EXCEPT !.call = "rank_sources",
                              !.out = RankSources(probe.args.sources, logs, items, now)]
    /\ UNCHANGED <<topicEnabled, sourceEnabled, sourceTopics, items, logs, summaries,
                   now, job, lastRun, prevRun, lastSum, spent, threads>>

NextSelect ==
    \/ SelectDiverseSourcesCall
    \/ RankSourcesCall

SpecSelect == InitSelect /\ [][NextSelect]_vars

TypesOf(sources) == {sources[k].source_type : k \in 1..Len(sources)}

Selected == probe.call = "select_diverse_sources"

\* C12: select_diverse_sources(sources, n) returns exactly min(n, len(sources))
\* sources, for every source list and every cap n.
C12_ExactlyMinCapLen ==
    Selected => Len(probe.out) = Min(probe.args.max_count, Len(probe.args.sources))

\* C13: whenever n >= 2 and the candidates contain at least two source types,
\* the result of select_diverse_sources contains at least two source types.
C13_TwoTypes ==
    (/\ Selected
     /\ probe.args.max_count >= 2
     /\ Cardinality(TypesOf(probe.args.sources)) >= 2)
    => Cardinality(TypesOf(probe.out)) >= 2

\* more candidates than the cap, and the only source of another type is
\* ranked last: it takes the last slot, ahead of better-ranked sources
C13_Witness ==
    /\ Selected
    /\ probe.args.max_count = 2
    /\ Len(probe.args.sources) = 4
    /\ LET ranked == RankSources(probe.args.sources, logs, items, now)
       IN  /\ ranked[4].source_type = "api"
           /\ probe.out = <<ranked[1], ranked[4]>>

Ranked == probe.call = "rank_sources"

\* the ScrapingLog rows and the newest ContentItem time of a source
LogHistory(s) ==
    LET mine == SelectSeq(logs, LAMBDA l : l.source_id = s)
    IN  [k \in 1..Len(mine) |-> <<mine[k].status, mine[k].created_at>>]

LatestItemAt(s) == {items[k].scraped_at : k \in {j \in 1..Len(items) :
                        items[j].source_id = s /\
                        \A i \in 1..Len(items) : items[i].source_id = s
                                                    => items[i].scraped_at <= items[j].scraped_at}}

AlikeButWeight(a, b) ==
    /\ a.source_type = b.source_type
    /\ LogHistory(a.id) = LogHistory(b.id)
    /\ LatestItemAt(a.id) = LatestItemAt(b.id)
    /\ a.weight10 # b.weight10

\* C14: of two sources with the same log history, latest-item age and type
\* and different weights, rank_sources never places the one of higher weight
\* after the one of lower weight.
C14_WeightMonotone ==
    Ranked =>
        \A i, j \in 1..Len(probe.out) :
            (/\ AlikeButWeight(probe.out[i], probe.out[j])
             /\ probe.out[i].weight10 > probe.out[j].weight10)
            => i < j

\* two such sources with a history, handed over lower weight first, come
\* back higher weight first
C14_Witness ==
    /\ Ranked
    /\ \E i, j \in 1..Len(probe.args.sources) :
          /\ i < j
          /\ AlikeButWeight(probe.args.sources[i], probe.args.sources[j])
          /\ probe.args.sources[i].weight10 < probe.args.sources[j].weight10
          /\ LogHistory(probe.args.sources[i].id) # <<>>
          /\ \E a, b \in 1..Len(probe.out) :
                a < b /\ probe.out[a] = probe.args.sources[j]
                      /\ probe.out[b] = probe.args.sources[i]

----------------------------------------------------------------------------
(* rank_content called on its own                                          *)

\* rows of either source, with and without the metadata an adapter stores
RankRows ==
    {[RowAlpha EXCEPT !.source_id = s, !.extra_data = [score |-> sc, comments |-> c]] :
        s \in Sources, sc \in {-1, 150, 1000}, c \in {-1, 400}}

RankClocks == {1, 30}

InitRank ==
    /\ probe \in {[call |-> "request", args |-> [op |-> "rank_content", items |-> l],
                   out |-> <<>>, prev |-> NoCall] : l \in SeqsUpTo(RankRows, MaxItems)}
    /\ now \in RankClocks
    /\ topicEnabled = [t \in Topics |-> TRUE]
    /\ sourceEnabled = [s \in Sources |-> TRUE]
    /\ sourceTopics = InitSourceTopics
    /\ items = <<>>
    /\ logs = <<>>
    /\ summaries = <<>>
    /\ job = NoJob
    /\ lastRun = NoRun
    /\ prevRun = NoRun
    /\ lastSum = NoSum
    /\ spent = [calls |-> 0, jobs |-> 0, toggles |-> 0, fetched |-> 0]
    /\ threads = NoThreads

RankContentCall ==
    /\ probe.call = "request"
    /\ probe.args.op = "rank_content"
    /\ probe' = [probe EXCEPT !.call = "rank_content",
                              !.out = [ranked |-> RankContent(probe.args.items, now),
                                       scores |-> [k \in 1..Len(probe.args.items) |->
                                                     ScoreItem20(probe.args.items[k], now)]]]
    /\ UNCHANGED <<topicEnabled, sourceEnabled, sourceTopics, items, logs, summaries,
                   now, job, lastRun, prevRun, lastSum, spent, threads>>

NextRank == RankContentCall

SpecRank == InitRank /\ [][NextRank]_vars

\* the same row without its metadata score, without its metadata comments
WithoutScore(item) == [item EXCEPT !.extra_data.score = -1]
WithoutComments(item) == [item EXCEPT !.extra_data.comments = -1]

\* C15: in rank_content the metadata score field of an item adds at most 20
\* points to the item's total score, and its comments field at most 10,
\* whatever the metadata holds (a metadata score of 1000 adds at most 20).
C15_MetadataBonusCapped ==
    probe.call = "rank_content" =>
        \A k \in 1..Len(probe.args.items) :
            LET item == probe.args.items[k]
            IN  /\ probe.out.scores[k] = ScoreItem20(item, now)
                /\ probe.out.scores[k] - ScoreItem20(WithoutScore(item), now) <= 20 * 20
                /\ probe.out.scores[k] - ScoreItem20(WithoutComments(item), now) <= 10 * 20

\* an item with metadata score 1000 and 400 comments was ranked together
\* with an item without metadata
C15_Witness ==
    /\ probe.call = "rank_content"
    /\ Len(probe.out.ranked) = 2
    /\ \E k \in 1..2 : /\ probe.args.items[k].extra_data = [score |-> 1000, comments |-> 400]
                       /\ probe.args.items[3 - k].extra_data = NoMeta
                       /\ probe.out.scores[k] - ScoreItem20(WithoutScore(probe.args.items[k]), now)
                             <= 20 * 20

----------------------------------------------------------------------------
(* sync_config_to_database: the YAML configuration written to the store    *)

\* a configuration: the listed topics' enabled flags, and the listed sources
\* in file order, each with its enabled flag and its topic names
Config(tEnabled, listed) == [topics |-> tEnabled, sources |-> listed]
ConfigSource(s, topicNames) == [name |-> s, enabled |-> TRUE, topics |-> topicNames]

ConfigInitial ==
    Config([t \in Topics |-> TRUE],
           <<ConfigSource("A", <<"T1">>), ConfigSource("B", <<"T1", "T2">>)>>)
\* source A moved from T1 to T2
ConfigMoved ==
    Config([t \in Topics |-> TRUE],
           <<ConfigSource("A", <<"T2">>), ConfigSource("B", <<"T1", "T2">>)>>)
\* source B left with a topic that does not exist, source A no longer listed
ConfigOnlyB ==
    Config([t \in Topics |-> TRUE], <<ConfigSource("B", <<MissingTopic, "T2">>)>>)

Configs == {ConfigInitial, ConfigMoved, ConfigOnlyB}

\* lines 123-129 for one source: its rows deleted, one row added for every
\* topic name that has a Topic row
Reassociate(rows, src) ==
    LET named == SelectSeq(src.topics, LAMBDA t : TopicExists(t))
    IN  SelectSeq(rows, LAMBDA st : st.source_id # src.name)
        \o [k \in 1..Len(named) |-> [source_id |-> src.name, topic_id |-> named[k]]]

RECURSIVE SyncSources(_, _)
SyncSources(rows, listed) ==
    IF listed = <<>> THEN rows
    ELSE SyncSources(Reassociate(rows, Head(listed)), Tail(listed))

SyncConfigToDatabase(cfg) ==
    /\ Idle
    /\ topicEnabled' = [t \in Topics |-> cfg.topics[t]]
    /\ sourceEnabled' =
          [s \in Sources |->
              LET listed == {k \in 1..Len(cfg.sources) : cfg.sources[k].name = s}
              IN  IF listed = {} THEN sourceEnabled[s]
                  ELSE cfg.sources[CHOOSE k \in listed : TRUE].enabled]
    /\ sourceTopics' = SyncSources(sourceTopics, cfg.sources)
    /\ spent' = [spent EXCEPT !.calls = @ + 1]
    /\ job' = NoJob /\ lastRun' = NoRun /\ prevRun' = NoRun /\ lastSum' = NoSum
    /\ UNCHANGED <<items, logs, summaries, now, probe, threads>>

SyncOutcomes == {FetchItems(<<ItemKeyed>>)}
SyncBackends == {"unconfigured", "text"}

NextSync ==
    /\ spent.calls < MaxCalls
    /\ \/ \E k \in 1..Len(sourceTopics), o \in SyncOutcomes :
              ScrapeSource(sourceTopics[k].source_id, sourceTopics[k].topic_id, o, "none")
       \/ \E cfg \in Configs : SyncConfigToDatabase(cfg)
       \/ \E t \in Topics, b \in SyncBackends : SummarizeTopicCall(t, b, "none")

SpecSync == Init /\ [][NextSync]_vars

\* the names of the sources associated with a topic
AssociatedNames(t) ==
    {SourceName[sourceTopics[k].source_id] :
        k \in {j \in 1..Len(sourceTopics) : sourceTopics[j].topic_id = t}}

\* C16: the sources_used of every Summary summarize_topic writes is a subset
\* of the names of the sources associated with the topic when the Summary is
\* generated, after any sequence of scrapes, config syncs and summarizations.
C16_SourcesUsedAssociated ==
    (lastSum.called /\ lastSum.created)
    => LET written == summaries[Len(summaries)]
       IN  {written.sources_used[k] : k \in 1..Len(written.sources_used)}
               \subseteq AssociatedNames(lastSum.topic)

----------------------------------------------------------------------------
(* The per-topic reads: api.topic_content and main.topic_detail            *)

\* the first row of order_by(Summary.created_at): the rows of the topic with
\* the least creation time (which of several the store returns is not
\* specified)
EarliestSummaries(sums, t) ==
    {k \in 1..Len(sums) :
        /\ sums[k].topic_id = t
        /\ \A j \in 1..Len(sums) :
              sums[j].topic_id = t => sums[k].created_at <= sums[j].created_at}

\* the first row of order_by(Summary.created_at.desc()): the rows of the
\* topic with the greatest creation time (which of several the store
\* returns is not specified)
LatestSummaries(sums, t) ==
    {k \in 1..Len(sums) :
        /\ sums[k].topic_id = t
        /\ \A j \in 1..Len(sums) :
              sums[j].topic_id = t => sums[j].created_at <= sums[k].created_at}

NoSummary == [topic_id |-> "", content |-> NoNarrative, sources_used |-> <<>>,
              item_count |-> 0, created_at |-> -1]

\* what a read returned, and the Summary table it read
Response(status, summary, n) ==
    [status |-> status, summary |-> summary, items |-> n, table |-> summaries]

\* GET /api/content/<topic_name>
TopicContent(t) ==
    /\ Idle
    /\ IF ~TopicExists(t) \/ LatestSummaries(summaries, t) = {}
       THEN probe' = [call |-> "topic_content", args |-> [topic |-> t],
                      out |-> Response(404, NoSummary, 0), prev |-> NoCall]
       ELSE \E k \in LatestSummaries(summaries, t) :
               probe' = [call |-> "topic_content", args |-> [topic |-> t],
                         out |-> Response(200, summaries[k], 0), prev |-> NoCall]
    /\ UNCHANGED <<topicEnabled, sourceEnabled, sourceTopics, items, logs, summaries,
                   now, job, lastRun, prevRun, lastSum, spent, threads>>

\* GET /topic/<topic_name>
TopicDetail(t) ==
    /\ Idle
    /\ LET mine == SelectSeq(items, LAMBDA it : it.topic_id = t)
           n == Min(Len(mine), DetailItemLimit)
       IN  IF ~TopicExists(t)
           THEN probe' = [call |-> "topic_detail", args |-> [topic |-> t],
                          out |-> Response(404, NoSummary, 0), prev |-> NoCall]
           ELSE IF LatestSummaries(summaries, t) = {}
           THEN probe' = [call |-> "topic_detail", args |-> [topic |-> t],
                          out |-> Response(200, NoSummary, n), prev |-> NoCall]
           ELSE \E k \in LatestSummaries(summaries, t) :
                   probe' = [call |-> "topic_detail", args |-> [topic |-> t],
                             out |-> Response(200, summaries[k], n), prev |-> NoCall]
    /\ UNCHANGED <<topicEnabled, sourceEnabled, sourceTopics, items, logs, summaries,
                   now, job, lastRun, prevRun, lastSum, spent, threads>>

\* the clock moves on by an hour
Hour ==
    /\ Idle
    /\ now' = now + 1
    /\ spent' = [spent EXCEPT !.calls = @ + 1]
    /\ job' = NoJob /\ lastRun' = NoRun /\ prevRun' = NoRun /\ lastSum' = NoSum
    /\ UNCHANGED <<topicEnabled, sourceEnabled, sourceTopics, items, logs, summaries,
                   probe, threads>>

\* the store after each source was scraped once for its first topic
InitRead ==
    LET a == Run(<<>>, <<>>, "A", "T1", FetchItems(<<ItemKeyed>>), "none", 0)
        b == Run(a.items, a.logs, "B", "T2", FetchItems(<<ItemNoKey>>), "none", 0)
    IN  /\ items = b.items
        /\ logs = b.logs
        /\ summaries = <<>>
        /\ now = 0
        /\ topicEnabled = [t \in Topics |-> TRUE]
        /\ sourceEnabled = [s \in Sources |-> TRUE]
        /\ sourceTopics = InitSourceTopics
        /\ job = NoJob
        /\ lastRun = NoRun
        /\ prevRun = NoRun
        /\ lastSum = NoSum
        /\ spent = [calls |-> 0, jobs |-> 0, toggles |-> 0, fetched |-> 0]
        /\ probe = NoProbe
        /\ threads = NoThreads

ReadBackends == {"unconfigured", "empty_text"}

NextRead ==
    \/ /\ spent.calls < MaxCalls
       /\ \/ \E t \in Topics, b \in ReadBackends, f \in StoreFaults :
                SummarizeTopicCall(t, b, f)
          \/ Hour
    \/ \E t \in TopicIds : TopicContent(t)
    \/ \E t \in TopicIds : TopicDetail(t)

SpecRead == InitRead /\ [][NextRead]_vars

\* a read of an existing topic that has a Summary
ReadOfSummarized ==
    /\ probe.call \in {"topic_content", "topic_detail"}
    /\ \E k \in 1..Len(probe.out.table) : probe.out.table[k].topic_id = probe.args.topic

\* C17: summarize_topic only ever inserts a Summary (the rows there before
\* the call are the same rows after it, followed by at most one new row),
\* and the per-topic reads topic_content and topic_detail return a Summary of
\* the topic that none of the topic's Summaries is newer than.
C17_AdditiveAndNewestRead ==
    /\ lastSum.called =>
          /\ Len(summaries) \in {Len(lastSum.before), Len(lastSum.before) + 1}
          /\ SubSeq(summaries, 1, Len(lastSum.before)) = lastSum.before
          /\ lastSum.created <=> Len(summaries) = Len(lastSum.before) + 1
    /\ ReadOfSummarized =>
          /\ probe.out.status = 200
          /\ probe.out.summary.topic_id = probe.args.topic
          /\ \E k \in 1..Len(probe.out.table) : probe.out.table[k] = probe.out.summary
          /\ \A k \in 1..Len(probe.out.table) :
                probe.out.table[k].topic_id = probe.args.topic
                => probe.out.table[k].created_at <= probe.out.summary.created_at

\* a topic summarized twice, an hour apart, and then read: the read returned
\* the second Summary, and the first is still in the table
C17_Witness ==
    /\ ReadOfSummarized
    /\ Len(probe.out.table) = 2
    /\ probe.out.table[1].topic_id = probe.args.topic
    /\ probe.out.table[2].topic_id = probe.args.topic
    /\ probe.out.table[1].created_at < probe.out.table[2].created_at
    /\ probe.out.summary = probe.out.table[2]
    /\ summaries = probe.out.table

----------------------------------------------------------------------------
(* Two threads of control on one store: the background scheduler's job     *)
(* thread and a request thread of the web server.  Each has its own        *)
(* session and connection.  A session sees the committed rows and the rows *)
(* it has flushed itself; flushing begins a write transaction, which one   *)
(* connection at a time can hold until it commits; a connection that waits *)
(* for it longer than the busy timeout gets "database is locked".          *)

Threads == {"scheduler", "admin"}
Other(th) == IF th = "scheduler" THEN "admin" ELSE "scheduler"

\* pending: rows added to the session; flushed: rows written in the open
\* transaction; window: the items summarize_topic has read
IdleThread ==
    [pc |-> "idle", source |-> "", topic |-> "", todo |-> <<>>, pending |-> <<>>,
     flushed |-> <<>>, fetched |-> 0, saved |-> 0, status |-> "", prefix |-> "",
     detail |-> "", window |-> <<>>, escaped |-> FALSE]

Free(th) == threads[th].pc \in {"idle", "done"}

\* the other connection holds the write transaction
Locked(th) == threads[Other(th)].flushed # <<>>

\* the lookup of this item is a query, and the session has rows to flush
\* before it
FlushesBefore(me) ==
    /\ me.todo # <<>>
    /\ Truthy(Head(me.todo).external_id) \/ Truthy(Head(me.todo).url)
    /\ me.pending # <<>>

\* BaseScraper.run entered in a thread: self.fetch()
RunBegin(th, s, t, o) ==
    /\ Free(th)
    /\ threads' = [threads EXCEPT ![th] =
          IF o.kind = "items"
          THEN [IdleThread EXCEPT !.pc = "save", !.source = s, !.topic = t,
                   !.todo = SubSeq(o.items, 1, Min(Len(o.items), MAX_ITEMS_PER_SOURCE)),
                   !.fetched = Len(o.items)]
          ELSE [IdleThread EXCEPT !.pc = "log", !.source = s, !.topic = t,
                   !.status = "error", !.detail = o.detail,
                   !.prefix = IF o.kind = "RequestException" THEN "Request failed"
                              ELSE "Unexpected error"]]
    /\ spent' = [spent EXCEPT !.calls = @ + 1]
    /\ UNCHANGED <<topicEnabled, sourceEnabled, sourceTopics, items, logs, summaries,
                   now, job, lastRun, prevRun, lastSum, probe>>

\* save_items, one turn of its loop: the lookup (after the autoflush), then
\* the row added to the session
SaveItemStep(th) ==
    LET me == threads[th]
        item == Head(me.todo)
        flushed2 == IF FlushesBefore(me) THEN me.flushed \o me.pending ELSE me.flushed
        pending2 == IF FlushesBefore(me) THEN <<>> ELSE me.pending
    IN  /\ me.pc = "save"
        /\ me.todo # <<>>
        /\ FlushesBefore(me) => ~Locked(th)
        /\ threads' = [threads EXCEPT ![th] =
              IF Existing(items \o flushed2, me.source, item)
              THEN [me EXCEPT !.todo = Tail(@), !.flushed = flushed2, !.pending = pending2]
              ELSE IF RaisesOnBuild(item)
              THEN [me EXCEPT !.pc = "log", !.status = "error",
                              !.prefix = "Unexpected error", !.detail = "TypeError",
                              !.flushed = flushed2, !.pending = pending2]
              ELSE [me EXCEPT !.todo = Tail(@), !.flushed = flushed2, !.saved = @ + 1,
                              !.pending = Append(pending2,
                                  ContentItem(me.source, me.topic, item, now))]]
        /\ UNCHANGED <<topicEnabled, sourceEnabled, sourceTopics, items, logs, summaries,
                       now, job, lastRun, prevRun, lastSum, spent, probe>>

\* save_items, after its loop: db.session.commit()
SaveCommit(th) ==
    LET me == threads[th]
    IN  /\ me.pc = "save"
        /\ me.todo = <<>>
        /\ me.pending # <<>> => ~Locked(th)
        /\ items' = items \o me.flushed \o me.pending
        /\ threads' = [threads EXCEPT ![th] =
              [me EXCEPT !.pc = "log", !.status = "success", !.prefix = "Fetched, saved new",
                         !.flushed = <<>>, !.pending = <<>>]]
        /\ UNCHANGED <<topicEnabled, sourceEnabled, sourceTopics, logs, summaries,
                       now, job, lastRun, prevRun, lastSum, spent, probe>>

\* log_result: the log added and the session committed, with whatever rows
\* it still holds
LogStep(th) ==
    LET me == threads[th]
        ok == me.status = "success"
    IN  /\ me.pc = "log"
        /\ ~Locked(th)
        /\ items' = items \o me.flushed \o me.pending
        /\ logs' = Append(logs, ScrapingLog(me.source, me.topic, me.status, me.prefix,
                                 me.detail, IF ok THEN me.fetched ELSE 0,
                                 IF ok THEN me.saved ELSE 0,
                                 IF ok THEN me.saved ELSE 0, now))
        /\ threads' = [threads EXCEPT ![th] =
              [me EXCEPT !.pc = "done", !.flushed = <<>>, !.pending = <<>>]]
        /\ UNCHANGED <<topicEnabled, sourceEnabled, sourceTopics, summaries,
                       now, job, lastRun, prevRun, lastSum, spent, probe>>

\* summarize_topic entered in a thread: the topic and its recent items read
SumBegin(th, t) ==
    /\ Free(th)
    /\ LET window == IF TopicExists(t) THEN RecentItems(items, t, now) ELSE <<>>
       IN  threads' = [threads EXCEPT ![th] =
              [IdleThread EXCEPT !.pc = IF window = <<>> THEN "done" ELSE "summarize",
                                 !.topic = t, !.window = window]]
    /\ spent' = [spent EXCEPT !.calls = @ + 1]
    /\ UNCHANGED <<topicEnabled, sourceEnabled, sourceTopics, items, logs, summaries,
                   now, job, lastRun, prevRun, lastSum, probe>>

\* summarize_topic, from rank_content to the commit of the Summary
SumEnd(th, b) ==
    LET me == threads[th]
    IN  /\ me.pc = "summarize"
        /\ ~Locked(th)
        /\ \E order \in Orderings(SourceNames(me.window)) :
              summaries' = SummarizeTopic(me.window, summaries, TRUE, me.topic, b,
                                          order, "none", now).summaries
        /\ threads' = [threads EXCEPT ![th] = [me EXCEPT !.pc = "done"]]
        /\ UNCHANGED <<topicEnabled, sourceEnabled, sourceTopics, items, logs,
                       now, job, lastRun, prevRun, lastSum, spent, probe>>

\* the wait for the write transaction outlasts the busy timeout: the flush
\* raises, nothing of the session is written, and the exception leaves the
\* call (log_result, reached through run's except clause, commits a session
\* that has to be rolled back first)
LockTimeout(th) ==
    LET me == threads[th]
    IN  /\ Locked(th)
        /\ \/ me.pc = "save" /\ (FlushesBefore(me) \/ (me.todo = <<>> /\ me.pending # <<>>))
           \/ me.pc = "log"
           \/ me.pc = "summarize"
        /\ threads' = [threads EXCEPT ![th] =
              [me EXCEPT !.pc = "done", !.escaped = TRUE, !.flushed = <<>>,
                         !.pending = <<>>]]
        /\ UNCHANGED <<topicEnabled, sourceEnabled, sourceTopics, items, logs, summaries,
                       now, job, lastRun, prevRun, lastSum, spent, probe>>

InitConcurrent ==
    /\ threads = [th \in Threads |-> IdleThread]
    /\ probe = NoProbe
    /\ topicEnabled = [t \in Topics |-> TRUE]
    /\ sourceEnabled = [s \in Sources |-> TRUE]
    /\ sourceTopics = InitSourceTopics
    /\ items = <<>>
    /\ logs = <<>>
    /\ summaries = <<>>
    /\ now = 0
    /\ job = NoJob
    /\ lastRun = NoRun
    /\ prevRun = NoRun
    /\ lastSum = NoSum
    /\ spent = [calls |-> 0, jobs |-> 0, toggles |-> 0, fetched |-> 0]

\* fetches of items that carry an external_id
ConcurrentOutcomes ==
    {FetchRequestError, FetchItems(<<ItemKeyed>>), FetchItems(<<ItemKeyed, ItemNullTitle>>)}

ConcurrentBackends == {"unconfigured", "text"}

NextConcurrent ==
    \/ /\ spent.calls < MaxCalls
       /\ \E th \in Threads, k \in 1..Len(sourceTopics), o \in ConcurrentOutcomes :
             RunBegin(th, sourceTopics[k].source_id, sourceTopics[k].topic_id, o)
    \/ /\ spent.calls < MaxCalls
       /\ \E th \in Threads, t \in Topics : SumBegin(th, t)
    \/ \E th \in Threads : SaveItemStep(th)
    \/ \E th \in Threads : SaveCommit(th)
    \/ \E th \in Threads : LogStep(th)
    \/ \E th \in Threads, b \in ConcurrentBackends : SumEnd(th, b)
    \/ \E th \in Threads : LockTimeout(th)

SpecConcurrent == InitConcurrent /\ [][NextConcurrent]_vars

\* C18: when two runs for the same source execute concurrently and fetch
\* the same item, at most one ContentItem of that source with the item's
\* external_id ends up in the store.
C18_AtMostOnePerKey ==
    \A i, j \in 1..Len(items) :
        (/\ i # j
         /\ items[i].source_id = items[j].source_id
         /\ Truthy(items[i].external_id))
        => items[i].external_id # items[j].external_id

\* C19: two executions of summarize_topic for the same topic never overlap.
C19_NoOverlapPerTopic ==
    (\A th \in Threads : threads[th].pc = "summarize")
    => threads["scheduler"].topic # threads["admin"].topic

----------------------------------------------------------------------------
(* The ScrapingLog of a run                                                *)

\* C20: every run that returns appends exactly one ScrapingLog, for its
\* source and topic, and leaves the logs there before as they were; when the
\* fetch and the save succeeded the log has status 'success' and its
\* items_fetched is the number of rows the run added (the number fetched is
\* in the message only); otherwise it has status 'error' and items_fetched 0.
C20_OneLogPerRun ==
    [][(lastRun'.called /\ ~lastRun'.escaped) =>
          /\ Len(logs') = Len(logs) + 1
          /\ SubSeq(logs', 1, Len(logs)) = logs
          /\ LET log == logs'[Len(logs')]
             IN  /\ log.source_id = lastRun'.source
                 /\ log.topic_id = lastRun'.topic
                 /\ IF RunFailure(lastRun')
                    THEN log.status = "error" /\ log.items_fetched = 0
                    ELSE /\ log.status = "success"
                         /\ log.items_fetched = Len(items') - Len(items)
                         /\ log.items_fetched = lastRun'.ret
                         /\ log.message.fetched = Len(lastRun'.outcome.items)]_vars

\* a run that fetched the same item twice and saved it once: the log counts one
C20_Witness ==
    /\ lastRun.called
    /\ ~lastRun.escaped
    /\ lastRun.outcome = FetchItems(<<ItemKeyed, ItemKeyed>>)
    /\ Len(logs) = lastRun.logs0 + 1
    /\ logs[Len(logs)].status = "success"
    /\ logs[Len(logs)].message.fetched = 2
    /\ logs[Len(logs)].items_fetched = 1

----------------------------------------------------------------------------
(* A fetch that fails at the network layer                                 *)

\* C21: a run whose fetch raises RequestException examines no item and
\* leaves the ContentItems (and the Summaries) as they were; the only change
\* to the store is one appended ScrapingLog of status 'error' for the run's
\* source and topic (appended whenever the run returns).
C21_FetchFailureTouchesNoItem ==
    [][(lastRun'.called /\ lastRun'.outcome.kind = "RequestException") =>
          /\ items' = items
          /\ summaries' = summaries
          /\ lastRun'.seen = <<>>
          /\ lastRun'.ret = 0
          /\ \/ lastRun'.escaped /\ logs' = logs
             \/ /\ ~lastRun'.escaped
                /\ Len(logs') = Len(logs) + 1
                /\ SubSeq(logs', 1, Len(logs)) = logs
                /\ logs'[Len(logs')].status = "error"
                /\ logs'[Len(logs')].items_fetched = 0
                /\ logs'[Len(logs')].source_id = lastRun'.source
                /\ logs'[Len(logs')].topic_id = lastRun'.topic]_vars

\* a run over a store that already holds an item of the source: the fetch
\* failed, the item is still the only one, and the error log was appended
C21_Witness ==
    /\ lastRun.called
    /\ lastRun.outcome = FetchRequestError
    /\ ~lastRun.escaped
    /\ lastRun.items0 = 1
    /\ Len(items) = 1
    /\ items[1].source_id = lastRun.source
    /\ Len(logs) = lastRun.logs0 + 1
    /\ logs[Len(logs)].status = "error"

----------------------------------------------------------------------------
(* scrape_topic over topics and sources that are switched on or off        *)

InitScrape ==
    /\ topicEnabled \in [Topics -> BOOLEAN]
    /\ sourceEnabled \in [Sources -> BOOLEAN]
    /\ sourceTopics = InitSourceTopics
    /\ items = <<>>
    /\ logs = <<>>
    /\ summaries = <<>>
    /\ now = 0
    /\ job = NoJob
    /\ lastRun = NoRun
    /\ prevRun = NoRun
    /\ lastSum = NoSum
    /\ spent = [calls |-> 0, jobs |-> 0, toggles |-> 0, fetched |-> 0]
    /\ probe = NoProbe
    /\ threads = NoThreads

\* what the adapters return and the store does during these refreshes: the
\* same item with an external_id, with a url only, or with neither
ScrapeRuns ==
    BatchRuns \cup {<<FetchItems(<<ItemUrlOnly>>), "none">>,
                    <<FetchItems(<<ItemNoKey>>), "none">>}

NextScrape ==
    \/ spent.jobs < MaxJobs /\ \E t \in TopicIds : RunTopicScraper(t)
    \/ \E of \in ScrapeRuns : ScrapeStep(of[1], of[2])
    \/ RefreshSummarizeStep("unconfigured", "none")

SpecScrape == InitScrape /\ [][NextScrape]_vars

\* the calls of scrape_source the handler has made, the one that raised included
Invocations(trace) ==
    SelectSeq(trace, LAMBDA e : e.what \in {"run", "except"} /\ e.source # "")

\* how many SourceTopic rows associate a source with a topic
Associations(s, t) ==
    Cardinality({k \in 1..Len(sourceTopics) :
                    sourceTopics[k].source_id = s /\ sourceTopics[k].topic_id = t})

TimesInvoked(s) ==
    Cardinality({k \in 1..Len(Invocations(job.trace)) :
                    Invocations(job.trace)[k].source = s})

RECURSIVE SumOfCounts(_)
SumOfCounts(entries) ==
    IF entries = <<>> THEN 0 ELSE Head(entries).n + SumOfCounts(Tail(entries))

\* scrape_topic has returned to run_topic_scraper
ScrapeTopicReturned ==
    /\ job.kind = "run_topic_scraper"
    /\ job.phase \in {"summarize", "done"}
    /\ \A k \in 1..Len(job.trace) :
          ~(job.trace[k].what = "except" /\ job.trace[k].source # "")

\* C22: scrape_topic never runs a source that is disabled or not associated
\* with the topic, and runs no source more often than it is associated; a
\* scrape_topic of an enabled topic that returns has run every enabled
\* source once for each of its associations with the topic, and returns the
\* sum of the counts those runs returned (0, without a run, for a disabled
\* or missing topic).
C22_OnlyEnabledAssociatedSources ==
    job.kind = "run_topic_scraper" =>
        /\ \A s \in Sources :
              TimesInvoked(s) <= (IF sourceEnabled[s] /\ TopicExists(job.topic)
                                  THEN Associations(s, job.topic) ELSE 0)
        /\ ScrapeTopicReturned =>
              /\ \A s \in Sources :
                    TimesInvoked(s) =
                        (IF /\ TopicExists(job.topic)
                            /\ topicEnabled[job.topic]
                            /\ sourceEnabled[s]
                         THEN Associations(s, job.topic) ELSE 0)
              /\ job.total = SumOfCounts(RunEntries(job.trace))
              /\ Len(logs) = job.logs0 + Len(RunEntries(job.trace))

\* T1 is enabled, its source A is disabled and its source B enabled:
\* scrape_topic ran B alone and returned the one item B saved
C22_Witness ==
    /\ ScrapeTopicReturned
    /\ job.topic = "T1"
    /\ topicEnabled["T1"]
    /\ ~sourceEnabled["A"]
    /\ sourceEnabled["B"]
    /\ Len(job.trace) >= 1
    /\ RunEntries(job.trace) = <<job.trace[1]>>
    /\ job.trace[1].source = "B"
    /\ job.total = 1
    /\ Len(items) = job.items0 + 1

\* the rows the refresh in progress has added to the store
SavedInRefresh == SubSeq(items, job.items0 + 1, Len(items))

\* the window query of the refresh's summarize_topic was not cut by its limit
WithinTopicCap ==
    Cardinality({k \in 1..Len(items) :
                    /\ items[k].topic_id = job.topic
                    /\ items[k].scraped_at > now - SummaryWindowHours})
        <= MAX_ITEMS_PER_TOPIC

\* C23: within run_topic_scraper, summarize_topic is not entered while a
\* source of the topic is still to run; when it is entered, every enabled
\* source associated with the topic has been run to its end (its rows are
\* committed and its ScrapingLog row written), no run follows it, and every
\* row saved during the refresh is in the store it reads and, the limit of
\* the query not being exceeded, among the items it ranks and summarizes.
C23_SummarizeAfterAllRuns ==
    job.kind = "run_topic_scraper" =>
        /\ job.todo # <<>> => (~lastSum.called /\ job.phase = "scrape")
        /\ lastSum.called =>
              /\ job.phase = "done"
              /\ job.trace[Len(job.trace)].source = ""
              /\ Invocations(job.trace) = SubSeq(job.trace, 1, Len(job.trace) - 1)
              /\ RunEntries(job.trace) = Invocations(job.trace)
              /\ \A s \in Sources :
                    TimesInvoked(s) =
                        (IF /\ TopicExists(job.topic)
                            /\ topicEnabled[job.topic]
                            /\ sourceEnabled[s]
                         THEN Associations(s, job.topic) ELSE 0)
              /\ Len(logs) = job.logs0 + Len(RunEntries(job.trace))
              /\ Len(SavedInRefresh) = job.total
              /\ \A k \in 1..Len(SavedInRefresh) :
                    /\ SavedInRefresh[k].topic_id = job.topic
                    /\ WithinTopicCap =>
                          \E w \in 1..Len(lastSum.window) :
                              lastSum.window[w] = SavedInRefresh[k]

\* both sources of T1 saved a row in the refresh and its summary covers both
C23_Witness ==
    /\ job.kind = "run_topic_scraper"
    /\ job.topic = "T1"
    /\ lastSum.called
    /\ lastSum.created
    /\ Len(RunEntries(job.trace)) = 2
    /\ Len(SavedInRefresh) = 2
    /\ SavedInRefresh[1].source_id # SavedInRefresh[2].source_id
    /\ Len(lastSum.window) = 2
    /\ Len(summaries) = job.sums0 + 1

----------------------------------------------------------------------------
(* summarize_topic over stores that hold more rows than its query returns  *)

\* the hour at which the stores below are read
WindowNow == 26

\* the k-th row of a store: scraped at hour k, by A and B in turn; the
\* fourth row belongs to T2, every other row to T1
WindowRow(k) ==
    ContentItem(IF k % 2 = 1 THEN "A" ELSE "B",
                IF k = 4 THEN "T2" ELSE "T1",
                RawItem(Str("e", k), Str("story", 5 + k), Str("u", 20 + k)), k)

WindowStore(n) == [k \in 1..n |-> WindowRow(k)]

\* 0, 1, 20, 21 and 23 rows of T1 lie within 24 hours of WindowNow
WindowSizes == {0, 3, 23, 24, 26}

WindowBackends == {"unconfigured", "empty_text", "text"}

InitWindow ==
    /\ topicEnabled = [t \in Topics |-> TRUE]
    /\ sourceEnabled = [s \in Sources |-> TRUE]
    /\ sourceTopics = InitSourceTopics
    /\ items \in {WindowStore(n) : n \in WindowSizes}
    /\ logs = <<>>
    /\ summaries = <<>>
    /\ now = WindowNow
    /\ job = NoJob
    /\ lastRun = NoRun
    /\ prevRun = NoRun
    /\ lastSum = NoSum
    /\ spent = [calls |-> 0, jobs |-> 0, toggles |-> 0, fetched |-> 0]
    /\ probe = NoProbe
    /\ threads = NoThreads

NextWindow ==
    /\ spent.calls < MaxCalls
    /\ \/ \E t \in TopicIds, b \in WindowBackends, f \in StoreFaults :
            SummarizeTopicCall(t, b, f)
       \/ Tick

SpecWindow == InitWindow /\ [][NextWindow]_vars

\* the rows of the store the last summarize_topic was entitled to: its
\* topic's, scraped after the cutoff
Eligible ==
    {k \in 1..Len(items) :
        /\ items[k].topic_id = lastSum.topic
        /\ items[k].scraped_at > now - SummaryWindowHours}

InWindow(row) == \E w \in 1..Len(lastSum.window) : lastSum.window[w] = row

\* C24: summarize_topic considers only rows of its topic scraped within the
\* last 24 hours, MAX_ITEMS_PER_TOPIC of them at most and then the most
\* recently scraped ones; it adds at most one Summary, and the Summary it
\* adds names each source of the considered items once in sources_used and
\* counts the considered items in item_count.
C24_SummaryContents ==
    lastSum.called =>
        /\ \A w \in 1..Len(lastSum.window) :
              \E k \in Eligible : items[k] = lastSum.window[w]
        /\ \A v, w \in 1..Len(lastSum.window) :
              v # w => lastSum.window[v] # lastSum.window[w]
        /\ Len(lastSum.window) = Min(Cardinality(Eligible), MAX_ITEMS_PER_TOPIC)
        /\ \A k \in Eligible :
              InWindow(items[k]) \/
              \A w \in 1..Len(lastSum.window) :
                  lastSum.window[w].scraped_at >= items[k].scraped_at
        /\ IF lastSum.created
           THEN /\ summaries = Append(lastSum.before, summaries[Len(summaries)])
                /\ LET made == summaries[Len(summaries)]
                   IN  /\ made.topic_id = lastSum.topic
                       /\ made.item_count = Len(lastSum.window)
                       /\ made.item_count = Min(Cardinality(Eligible), MAX_ITEMS_PER_TOPIC)
                       /\ \A i, j \in 1..Len(made.sources_used) :
                             i # j => made.sources_used[i] # made.sources_used[j]
                       /\ {made.sources_used[i] : i \in 1..Len(made.sources_used)}
                            = {SourceName[lastSum.window[w].source_id] :
                                 w \in 1..Len(lastSum.window)}
           ELSE summaries = lastSum.before

\* 21 rows of T1 lie within the 24 hours, one row of T2 and two older rows
\* beside them: the Summary written counts the 20 newest
C24_Witness ==
    /\ lastSum.called
    /\ lastSum.created
    /\ lastSum.topic = "T1"
    /\ Len(items) = 24
    /\ Cardinality(Eligible) = MAX_ITEMS_PER_TOPIC + 1
    /\ summaries[Len(summaries)].item_count = MAX_ITEMS_PER_TOPIC
    /\ ~InWindow(items[3])
    /\ InWindow(items[5])
    /\ Len(summaries[Len(summaries)].sources_used) = 2

----------------------------------------------------------------------------
(* rank_content and the metadata the adapters store                        *)

\* min(s / 10, 20) + min(c / 20, 10) of the score s and the comments c an
\* adapter put in the item's metadata (save_items stores it in extra_data),
\* in twentieths
StoredBonus20(item) ==
    (IF item.extra_data.score >= 0 THEN Min(item.extra_data.score * 2, 20 * 20) ELSE 0)
    + (IF item.extra_data.comments >= 0 THEN Min(item.extra_data.comments, 10 * 20) ELSE 0)

WithoutMetadata(item) == [item EXCEPT !.extra_data = NoMeta]

\* C25: rank_content adds min(s/10, 20) and min(c/20, 10) to the score of a
\* stored item whose adapter metadata had score s and comments c, and of two
\* stored items that differ in nothing else the one whose bonus (its
\* metadata score not being cut by the cap) is higher is ranked first.
C25_MetadataReachesRanker ==
    probe.call = "rank_content" =>
        /\ \A k \in 1..Len(probe.args.items) :
              probe.out.scores[k] =
                  ScoreItem20(WithoutMetadata(probe.args.items[k]), now)
                    + StoredBonus20(probe.args.items[k])
        /\ \A i, j \in 1..Len(probe.out.ranked) :
              (/\ WithoutMetadata(probe.out.ranked[i]) = WithoutMetadata(probe.out.ranked[j])
               /\ StoredBonus20(probe.out.ranked[i]) > StoredBonus20(probe.out.ranked[j]))
                 => i < j

\* the items of a list that score v, in the order of the list
ScoringAs(its, v) == SelectSeq(its, LAMBDA r : ScoreItem20(r, now) = v)

\* C26: rank_content returns the items it was given, each as often as it
\* was given, in the order of non-increasing score, the items of one score
\* in the order they had in the input; it writes nothing to the store.
C26_StablePermutationByScore ==
    probe.call = "rank_content" =>
        /\ Len(probe.out.ranked) = Len(probe.args.items)
        /\ \A k \in 1..Len(probe.out.ranked) - 1 :
              ScoreItem20(probe.out.ranked[k], now)
                >= ScoreItem20(probe.out.ranked[k + 1], now)
        /\ \A k \in 1..Len(probe.args.items) :
              ScoringAs(probe.out.ranked, probe.out.scores[k])
                = ScoringAs(probe.args.items, probe.out.scores[k])
        /\ items = <<>> /\ logs = <<>> /\ summaries = <<>>

\* the item of the lighter source B was given first and is ranked second
C26_Witness ==
    /\ probe.call = "rank_content"
    /\ Len(probe.args.items) = 2
    /\ probe.args.items[1].source_id = "B"
    /\ probe.args.items[2].source_id = "A"
    /\ probe.out.scores[1] < probe.out.scores[2]
    /\ probe.out.ranked = <<probe.args.items[2], probe.args.items[1]>>

----------------------------------------------------------------------------
(* select_diverse_sources: what it keeps of the ranking                    *)

\* the place of a source in a list of distinct sources, 0 when absent
PlaceIn(list, source) ==
    IF \E k \in 1..Len(list) : list[k] = source
    THEN CHOOSE k \in 1..Len(list) : list[k] = source
    ELSE 0

\* the sources ranked before place i that the result holds
TakenBefore(ranked, out, i) == {j \in 1..(i - 1) : PlaceIn(out, ranked[j]) > 0}

\* the result holds the top-ranked source, holds no source twice, follows
\* the ranking, and holds every source that was reached while fewer than
\* max_count sources were taken and no source of its type was among them
KeepsRankingAndTypes(ranked, out, max_count) ==
    /\ Len(out) >= 1
    /\ out[1] = ranked[1]
    /\ \A k \in 1..Len(out) : PlaceIn(ranked, out[k]) > 0
    /\ \A k \in 1..Len(out) - 1 : PlaceIn(ranked, out[k]) < PlaceIn(ranked, out[k + 1])
    /\ \A i \in 2..Len(ranked) :
          (/\ Cardinality(TakenBefore(ranked, out, i)) < max_count
           /\ \A j \in TakenBefore(ranked, out, i) :
                 ranked[j].source_type # ranked[i].source_type)
             => PlaceIn(out, ranked[i]) > 0

----------------------------------------------------------------------------
(* cleanup_old_content                                                     *)

CONTENT_RETENTION_DAYS == 7
LogRetentionDays == 30
HoursPerDay == 24

\* the names cleanup_old_content can resolve: the globals of the scheduler
\* module (its imports, logger, scheduler and its functions) and the names
\* the function imports itself before it computes the cutoff
SchedulerNames ==
    {"logging", "datetime", "BackgroundScheduler", "IntervalTrigger", "logger",
     "scheduler", "init_scheduler", "run_all_scrapers", "run_all_summarizers",
     "run_topic_scraper", "get_scheduler_status", "cleanup_old_content",
     "ContentItem", "ScrapingLog", "timedelta"}

\* cleanup_old_content: the expression of the first cutoff reads the name
\* Config, and a name that does not resolve raises NameError there, before
\* either delete; otherwise both deletes are committed together
CleanupOldContent(rows, logRows, clock) ==
    IF "Config" \notin SchedulerNames
    THEN [items |-> rows, logs |-> logRows, raised |-> TRUE]
    ELSE LET cutoff == clock - CONTENT_RETENTION_DAYS * HoursPerDay
             log_cutoff == clock - LogRetentionDays * HoursPerDay
         IN  [items |-> SelectSeq(rows, LAMBDA r : ~(r.scraped_at < cutoff)),
              logs |-> SelectSeq(logRows, LAMBDA l : ~(l.created_at < log_cutoff)),
              raised |-> FALSE]

\* the hour of the cleanup, and hours before and after its two cutoffs
CleanupNow == 1000
CleanupHours == {100, 500, 900}

CleanupRows ==
    {[RowAlpha EXCEPT !.scraped_at = h] : h \in CleanupHours}

CleanupLogs ==
    {ScrapingLog("A", "T1", "success", "Fetched", "", 1, 1, 1, h) : h \in CleanupHours}

CleanupSummaries ==
    {<<>>, <<Summary("T1", SummarizeContent(<<RowAlpha>>, "T1", "unconfigured"),
                     <<SourceName["A"]>>, 1, 100)>>}

InitCleanup ==
    /\ items \in SeqsUpTo(CleanupRows, MaxItems)
    /\ logs \in SeqsUpTo(CleanupLogs, MaxItems)
    /\ summaries \in CleanupSummaries
    /\ now = CleanupNow
    /\ probe = [call |-> "request",
                args |-> [op |-> "cleanup_old_content", items |-> items,
                          logs |-> logs, summaries |-> summaries],
                out |-> <<>>, prev |-> NoCall]
    /\ topicEnabled = [t \in Topics |-> TRUE]
    /\ sourceEnabled = [s \in Sources |-> TRUE]
    /\ sourceTopics = InitSourceTopics
    /\ job = NoJob
    /\ lastRun = NoRun
    /\ prevRun = NoRun
    /\ lastSum = NoSum
    /\ spent = [calls |-> 0, jobs |-> 0, toggles |-> 0, fetched |-> 0]
    /\ threads = NoThreads

CleanupOldContentCall ==
    /\ probe.call = "request"
    /\ probe.args.op = "cleanup_old_content"
    /\ LET r == CleanupOldContent(items, logs, now)
       IN  /\ items' = r.items
           /\ logs' = r.logs
           /\ probe' = [probe EXCEPT !.call = "cleanup_old_content",
                                     !.out = [raised |-> r.raised]]
    /\ UNCHANGED <<topicEnabled, sourceEnabled, sourceTopics, summaries, now, job,
                   lastRun, prevRun, lastSum, spent, threads>>

NextCleanup == CleanupOldContentCall

SpecCleanup == InitCleanup /\ [][NextCleanup]_vars

\* C28: cleanup_old_content completes without an error; it has deleted the
\* ContentItems scraped before the retention horizon and the ScrapingLogs
\* created more than 30 days ago, kept every newer row, and left the
\* Summaries as they were.
C28_CleanupDeletesOld ==
    probe.call = "cleanup_old_content" =>
        /\ ~probe.out.raised
        /\ items = SelectSeq(probe.args.items, LAMBDA r :
                       r.scraped_at >= now - CONTENT_RETENTION_DAYS * HoursPerDay)
        /\ logs = SelectSeq(probe.args.logs, LAMBDA l :
                       l.created_at >= now - LogRetentionDays * HoursPerDay)
        /\ summaries = probe.args.summaries

----------------------------------------------------------------------------
(* run: the count it returns and the rows it leaves committed              *)

\* C29: the integer a run returns is the number of ContentItems the run
\* added to the committed store; a run whose save_items raises partway
\* through its batch returns 0, writes an 'error' log and leaves none of
\* the batch's items committed.
C29_ReturnedCountIsCommitted ==
    [][(lastRun'.called /\ ~lastRun'.escaped) =>
          /\ Len(items') = Len(items) + lastRun'.ret
          /\ SubSeq(items', 1, Len(items)) = items
          /\ logs'[Len(logs')].status = "error" =>
                (lastRun'.ret = 0 /\ items' = items)]_vars

----------------------------------------------------------------------------
(* one source under two topics                                             *)

\* the row was stored for an item of the same key
StoredFor(row, item) ==
    IF Truthy(item.external_id)
    THEN row.external_id = item.external_id
    ELSE row.external_id = Null /\ row.url = item.url

\* the refresh of a topic has ended after a run of a source that returned
\* items which an earlier refresh of another topic had stored for this
\* source, the store holding no row of the source under this topic
SecondTopicRefreshed ==
    /\ job.kind = "run_topic_scraper"
    /\ lastSum.called
    /\ lastRun.called
    /\ lastRun.topic = job.topic
    /\ lastRun.outcome.kind = "items"
    /\ lastRun.outcome.items # <<>>
    /\ \A k \in 1..job.items0 :
          ~(items[k].source_id = lastRun.source /\ items[k].topic_id = job.topic)
    /\ \A i \in 1..Len(lastRun.outcome.items) :
          /\ Findable(lastRun.outcome.items[i])
          /\ \E k \in 1..job.items0 :
                /\ items[k].source_id = lastRun.source
                /\ items[k].topic_id # job.topic
                /\ StoredFor(items[k], lastRun.outcome.items[i])

\* C30: the duplicate lookup does not look at the topic.  When a source of
\* two topics returns on the refresh of the second topic the items (found
\* by external_id or url) that the refresh of the first topic stored, the
\* second run saves none of them and returns 0, its log says 'success' with
\* 0 items, every item stays stored once for the source, under the first
\* topic, and the 24-hour window of the second topic's summarize_topic
\* holds no item of the source.
C30_DedupIgnoresTopic ==
    SecondTopicRefreshed =>
        /\ lastRun.ret = 0
        /\ ~lastRun.escaped
        /\ \A k \in 1..Len(items) :
              ~(items[k].source_id = lastRun.source /\ items[k].topic_id = job.topic)
        /\ \A i \in 1..Len(lastRun.outcome.items) :
              Cardinality({k \in 1..Len(items) :
                              /\ items[k].source_id = lastRun.source
                              /\ StoredFor(items[k], lastRun.outcome.items[i])}) = 1
        /\ \E k \in (job.logs0 + 1)..Len(logs) :
              /\ logs[k].source_id = lastRun.source
              /\ logs[k].topic_id = job.topic
              /\ logs[k].status = "success"
              /\ logs[k].items_fetched = 0
        /\ \A w \in 1..Len(lastSum.window) :
              lastSum.window[w].source_id # lastRun.source

\* T1 was refreshed and holds B's item; the refresh of T2, whose only source
\* is B, got the same item: nothing was saved and no Summary written
C30_Witness ==
    /\ SecondTopicRefreshed
    /\ job.topic = "T2"
    /\ lastRun.source = "B"
    /\ lastRun.outcome = FetchItems(<<ItemKeyed>>)
    /\ \E k \in 1..Len(items) :
          /\ items[k].source_id = "B"
          /\ items[k].topic_id = "T1"
          /\ items[k].external_id = ItemKeyed.external_id
    /\ Len(items) = job.items0
    /\ Len(logs) = job.logs0 + 1
    /\ logs[Len(logs)].status = "success"
    /\ lastSum.window = <<>>
    /\ ~lastSum.created
    /\ Len(summaries) = job.sums0

====
